---------------------------- MODULE Spec2Model ----------------------------
(***************************************************************************)
(* Model of the WebSocket relay of backend/app: the endpoint ws_transfer   *)
(* with its role handlers handle_sender, handle_receiver and handle_peer   *)
(* (api/endpoints/websocket.py) and the registry SessionManager with its   *)
(* TransferSession objects and its sweeper (services/session_manager.py).  *)
(*                                                                         *)
(* The handlers are asyncio coroutines: the code between two awaits runs   *)
(* atomically, and every action below is one such block of one coroutine,  *)
(* from the point where it resumes to the await where it suspends next.    *)
(* pc[c] names the await at which the coroutine of connection c is         *)
(* suspended.                                                              *)
(***************************************************************************)
EXTENDS Integers, Sequences, FiniteSets, TLC

(* ------------------------------ bounds -------------------------------- *)

\* connections that arrive when a user holds four already
NumLate == 3
\* distinct user_id path parameters
NumUsers == 2
\* data frames the clients send in total
MaxFrames == 3
\* frames one client has in flight
MaxInbox == 1
\* data frames the sender's client sends in a transfer
MaxTransfer == 5
\* data frames the clients of a mixed session send
MaxMixed == 3
\* connections of a mixed session: a sender, a receiver and the peers
NumParty == 5
\* connections of the rendezvous scenario
NumCallers == 3
\* peers of a peer group
NumPeers == 3
\* frames the clients of a peer group send
MaxPeerFrames == 1
\* connections of the idle sessions
NumIdlers == 4
\* connections that send malformed frames
NumWriters == 3
\* frames their clients send
MaxWritten == 2
\* peers of a conversation
NumTalkers == 4
\* chat messages their clients send
MaxTalk == 2
\* connections of the counted sessions
NumCounted == 3
\* frames their clients send
MaxCounted == 3
\* connections of the early senders
NumEarly == 3
\* frames their clients send
MaxEarly == 2
\* chat messages the receiver's client sends around the rendezvous
MaxGreetings == 2
\* connections that come and go while the sweeper runs
NumLeavers == 2
\* connections around a sender that waits while the sweeper runs
NumWaiters == 3
\* senders and receivers that take each other's place
NumRivals == 3
\* frames their clients send
MaxRivalFrames == 2
\* chat messages the clients of a conversation send
MaxChats == 102
\* only the last MaxLong of them may be longer than MAX_MESSAGE_LENGTH
MaxLong == 3
\* only the last MaxReplies of them may come from the receiver's client
MaxReplies == 3
\* largest binary payload, in bytes
MaxChunkLen == 2
\* the clock stops here
MaxNow == 3
\* settings.MAX_SESSIONS as set by the environment (config.py:9, default 200)
MAX_SESSIONS == 2
\* settings.MAX_MESSAGE_LENGTH as set by the environment (config.py:14)
MAX_MESSAGE_LENGTH == 2
\* settings.SESSION_TIMEOUT as set by the environment, in clock ticks of
\* five minutes (config.py:11)
SESSION_TIMEOUT == 2

(* ------------------------- program constants -------------------------- *)

\* websocket.py:18, the ceiling of connection_counts[user_id]
MaxConnectionsPerUser == 5
\* session_manager.py:40, the cap of TransferSession.messages
MaxMessages == 100
\* websocket.py:70, timeout = 300 seconds: one clock tick
RendezvousTimeout == 1

\* the connections the environment may open
NumConns == MaxConnectionsPerUser - 1 + NumLate
Conns == 1..NumConns
Users == 1..NumUsers
\* one session_id more than the registry can hold
SessionIds == 1..(MAX_SESSIONS + 1)
Modes == {"sender", "receiver", "peer", "bogus"}
\* message texts: a short one and one longer than MAX_MESSAGE_LENGTH
Texts == { [i \in 1..n |-> i] : n \in {1, MAX_MESSAGE_LENGTH + 1} }
\* binary payloads, told apart by their length and content
Chunks == { [i \in 1..n |-> n] : n \in 1..MaxChunkLen }
None == -1

VARIABLES
    now,                \* the wall clock, datetime.now() / time.time()
    connection_counts,  \* SessionManager.connection_counts
    sessions,           \* SessionManager.sessions: session_id -> object, 0 absent
    sess,               \* the TransferSession objects ever constructed
    pc,                 \* where the coroutine of each connection is suspended
    mode, user_id, session_id,  \* the path parameters of each connection
    session,            \* the TransferSession object the handler holds
    alive,              \* the client is still at the other end of the socket
    closed,             \* the server has closed the socket
    outbox,             \* the frames each client has been sent, in order
    inbox,              \* the frames each client has sent and the handler
                        \* has not taken yet
    rx,                 \* the data frames each handler has received, in order
    processed,          \* per TransferSession object: the frames handle_sender
                        \* has processed on it, in order
    iter,               \* the for-loop over session.peers a peer handler is in
    raised,             \* the exception a handler's finally block will re-raise
    start,              \* handle_sender's start = time.time()
    nframes,            \* data frames the clients have sent so far
    sweeper             \* cleanup_stale_sessions: its stale_sessions list

vars == <<now, connection_counts, sessions, sess, pc, mode, user_id,
          session_id, session, alive, closed, outbox, inbox, rx, processed,
          iter, raised, start, nframes, sweeper>>

(* ------------------------------ frames -------------------------------- *)

\* A frame: its kind, the connection it comes from (0: the server itself)
\* and its payload.
Frame(k, src, d) == [k |-> k, src |-> src, d |-> d]
Status(st) == Frame("status", 0, <<st>>)
Error(msg) == Frame("error", 0, <<msg>>)
Event(ty) == Frame(ty, 0, <<>>)

\* a socket that hands the client the newest frame first
Out_NewestFirst(ob, c, f) ==
    IF alive[c] /\ ~closed[c] THEN [ob EXCEPT ![c] = <<f>> \o @] ELSE ob

\* WebSocket.send_*: the frame reaches the client when the client is there
\* and the server has not closed the socket.
CanDeliver(c) == alive[c] /\ ~closed[c]
Out(ob, c, f) == IF CanDeliver(c) THEN [ob EXCEPT ![c] = Append(@, f)] ELSE ob
\* A send raises once the server has closed the socket (RuntimeError); a
\* send to a client that has gone raises or is lost unnoticed.
SendRaises(c, unnoticed) == closed[c] \/ (~alive[c] /\ ~unnoticed)

(* ------------------------- TransferSession ---------------------------- *)

\* TransferSession.__init__
TransferSession(sid) ==
    [session_id |-> sid, sender |-> 0, receiver |-> 0,
     bytes_transferred |-> 0, is_active |-> FALSE,
     start_time |-> None, end_time |-> None,
     last_activity |-> now, messages |-> <<>>, paused |-> FALSE,
     hasPeers |-> FALSE, peers |-> <<>>]

\* TransferSession.update_activity
update_activity(S, s) == [S EXCEPT ![s].last_activity = now]

\* the entry TransferSession.add_message builds
msg_data(tag, text) ==
    [sender |-> tag,
     message |-> SubSeq(text, 1, IF Len(text) < MAX_MESSAGE_LENGTH
                                 THEN Len(text) ELSE MAX_MESSAGE_LENGTH),
     timestamp |-> now]

\* a log that keeps its first entries when it overflows
LastMessages_KeepsOldest(ms) ==
    IF Len(ms) > MaxMessages THEN SubSeq(ms, 1, MaxMessages) ELSE ms

\* self.messages[-100:]
LastMessages(ms) ==
    IF Len(ms) > MaxMessages
    THEN SubSeq(ms, Len(ms) - MaxMessages + 1, Len(ms)) ELSE ms

\* TransferSession.add_message
add_message(S, s, tag, text) ==
    [S EXCEPT ![s].messages = LastMessages(Append(@, msg_data(tag, text)))]

(* -------------------------- SessionManager ---------------------------- *)

\* SessionManager.create_session: the object the call returns, the registry
\* and the objects after it
CreatedObj(sid) == IF sessions[sid] # 0 THEN sessions[sid] ELSE Len(sess) + 1
create_session(sid) ==
    IF sessions[sid] # 0 THEN sessions
    ELSE [sessions EXCEPT ![sid] = Len(sess) + 1]
create_session_obj(sid) ==
    IF sessions[sid] # 0 THEN sess ELSE Append(sess, TransferSession(sid))

\* SessionManager.remove_session
remove_session(R, sid) == [R EXCEPT ![sid] = 0]

\* len(session_manager.sessions)
NumSessions(R) == Cardinality({sid \in SessionIds : R[sid] # 0})

(* ----------------------------- ws_transfer ---------------------------- *)

\* a throttle that lets a sixth connection in
TooManyConnections_Sixth(uid) ==
    connection_counts[uid] >= MaxConnectionsPerUser + 1

\* websocket.py:18
TooManyConnections(uid) == connection_counts[uid] >= MaxConnectionsPerUser

\* a capacity check that an unregistered session_id passes
AtCapacity_Never(sid) == FALSE

\* websocket.py:26
AtCapacity(sid) == NumSessions(sessions) >= MAX_SESSIONS /\ sessions[sid] = 0

\* websocket.py:23
Acquire(uid) == [connection_counts EXCEPT ![uid] = @ + 1]
\* websocket.py:29 and 54
Release(uid) == [connection_counts EXCEPT ![uid] = @ - 1]

\* websocket.py:12-14: a new connection with its path parameters. The
\* connections are numbered in the order they arrive; the client may have
\* gone by the time ws_transfer first sends to it.
Accept(c, sid, m, uid, gone) ==
    /\ pc[c] = "idle"
    /\ \A d \in Conns : d < c => pc[d] # "idle"
    /\ mode' = [mode EXCEPT ![c] = m]
    /\ user_id' = [user_id EXCEPT ![c] = uid]
    /\ session_id' = [session_id EXCEPT ![c] = sid]
    /\ alive' = [alive EXCEPT ![c] = ~gone]

\* the first send of ws_transfer to the new connection c
FirstOut(c, f, gone) ==
    IF gone THEN outbox ELSE [outbox EXCEPT ![c] = Append(@, f)]
FirstRaises(gone, unnoticed) == gone /\ ~unnoticed


\* Leaving ws_transfer after the role handler: a handler that returns falls
\* through to the finally clause at once (websocket.py:53-58); one that
\* raises first has the except clause send the error frame (websocket.py:
\* 47-52) and reaches the finally clause when that send is over.
ExitHandler(c, reraise, ob, cl) ==
    IF reraise
    THEN /\ outbox' = Out(ob, c, Error("exception"))
         /\ closed' = cl
         /\ connection_counts' = connection_counts
         /\ pc' = [pc EXCEPT ![c] = "finally"]
    ELSE /\ outbox' = ob
         /\ closed' = [cl EXCEPT ![c] = TRUE]
         /\ connection_counts' = Release(user_id[c])
         /\ pc' = [pc EXCEPT ![c] = "done"]

\* websocket.py:18-21: the user holds five connections already
RejectTooMany(c, sid, m, uid, gone, unnoticed) ==
    /\ Accept(c, sid, m, uid, gone)
    /\ TooManyConnections(uid)
    /\ outbox' = FirstOut(c, Error("Too many connections"), gone)
    /\ closed' = [closed EXCEPT ![c] = ~FirstRaises(gone, unnoticed)]
    /\ pc' = [pc EXCEPT ![c] = "done"]
    /\ UNCHANGED <<now, connection_counts, sessions, sess, session, inbox, rx,
                   processed, iter, raised, start, nframes, sweeper>>

\* websocket.py:23-27: the counter is incremented, the registry is full and
\* the session_id is new; the send of the error frame is outside any try, so
\* when it raises the coroutine ends there
RejectCapacity(c, sid, m, uid, gone, unnoticed) ==
    /\ Accept(c, sid, m, uid, gone)
    /\ ~TooManyConnections(uid)
    /\ AtCapacity(sid)
    /\ connection_counts' = Acquire(uid)
    /\ outbox' = FirstOut(c, Error("Server at capacity"), gone)
    /\ pc' = [pc EXCEPT ![c] = IF FirstRaises(gone, unnoticed)
                                THEN "done" ELSE "cap_close"]
    /\ UNCHANGED <<now, sessions, sess, session, closed, inbox, rx, processed,
                   iter, raised, start, nframes, sweeper>>

\* websocket.py:28-30
CapacityClose(c) ==
    /\ pc[c] = "cap_close"
    /\ closed' = [closed EXCEPT ![c] = TRUE]
    /\ connection_counts' = Release(user_id[c])
    /\ pc' = [pc EXCEPT ![c] = "done"]
    /\ UNCHANGED <<now, sessions, sess, mode, user_id, session_id, session,
                   alive, outbox, inbox, rx, processed, iter, raised, start, nframes,
                   sweeper>>

\* websocket.py:23-34: the connection is admitted
Admit(c, sid, m, uid, gone) ==
    /\ Accept(c, sid, m, uid, gone)
    /\ ~TooManyConnections(uid)
    /\ ~AtCapacity(sid)
    /\ connection_counts' = Acquire(uid)
    /\ sessions' = create_session(sid)
    /\ session' = [session EXCEPT ![c] = CreatedObj(sid)]
    /\ processed' = IF sessions[sid] # 0 THEN processed
                    ELSE Append(processed, <<>>)

\* websocket.py:43-45: a role that is none of the three
AttachInvalid(c, sid, m, uid, gone, unnoticed) ==
    /\ m = "bogus"
    /\ Admit(c, sid, m, uid, gone)
    /\ sess' = update_activity(create_session_obj(sid), CreatedObj(sid))
    /\ outbox' = FirstOut(c, Error("Invalid mode: " \o m), gone)
    /\ closed' = [closed EXCEPT ![c] = ~FirstRaises(gone, unnoticed)]
    /\ pc' = [pc EXCEPT ![c] = "finally"]
    /\ UNCHANGED <<now, inbox, rx, iter, raised, start, nframes, sweeper>>

\* a finally clause that leaves the count as it is
Finally_KeepsCount(c) ==
    /\ pc[c] = "finally"
    /\ closed' = [closed EXCEPT ![c] = TRUE]
    /\ pc' = [pc EXCEPT ![c] = "done"]
    /\ UNCHANGED <<now, connection_counts, sessions, sess, mode, user_id,
                   session_id, session, alive, outbox, inbox, rx, processed, iter,
                   raised, start, nframes, sweeper>>

\* websocket.py:53-58
Finally(c) ==
    /\ pc[c] = "finally"
    /\ connection_counts' = Release(user_id[c])
    /\ closed' = [closed EXCEPT ![c] = TRUE]
    /\ pc' = [pc EXCEPT ![c] = "done"]
    /\ UNCHANGED <<now, sessions, sess, mode, user_id, session_id, session,
                   alive, outbox, inbox, rx, processed, iter, raised, start, nframes,
                   sweeper>>

(* ---------------------------- the clients ----------------------------- *)

\* the frames a client may send: text frames by the type of their JSON
\* object, text frames that are no JSON, and binary frames
ChatFrames(c) == {Frame("chat", c, text) : text \in Texts}
BinaryFrames(c) == {Frame("bytes", c, chunk) : chunk \in Chunks}
TextFrames(c, types) == {Frame(ty, c, <<>>) : ty \in types}
AllFrames(c) ==
    ChatFrames(c) \cup BinaryFrames(c)
    \cup TextFrames(c, {"typing", "pause", "resume", "pong", "other", "badjson"})

\* The client of a connection that is being handled goes away.
ClientDrop(c) ==
    /\ pc[c] \notin {"idle", "done"}
    /\ alive[c]
    /\ alive' = [alive EXCEPT ![c] = FALSE]
    /\ UNCHANGED <<now, connection_counts, sessions, sess, pc, mode, user_id,
                   session_id, session, closed, outbox, inbox, rx, processed, iter,
                   raised, start, nframes, sweeper>>

\* The client of an attached connection sends frame f; max bounds the
\* frames sent in all, and a client has MaxInbox frames in flight at most.
Attached(c) == pc[c] \in {"s_waiting", "s_sleep", "s_recv", "r_connected",
                          "r_recv", "p_notify", "p_recv", "p_bcast"}
ClientSend(c, f, max) ==
    /\ Attached(c)
    /\ alive[c] /\ ~closed[c]
    /\ nframes < max
    /\ Len(inbox[c]) < MaxInbox
    /\ inbox' = [inbox EXCEPT ![c] = Append(@, f)]
    /\ nframes' = nframes + 1
    /\ UNCHANGED <<now, connection_counts, sessions, sess, pc, mode, user_id,
                   session_id, session, alive, closed, outbox, rx, processed,
                   iter, raised, start, sweeper>>

\* websocket.receive() returns a data frame: one is in flight and the
\* server has not closed the socket
CanReceive(c) == inbox[c] # <<>> /\ ~closed[c]
\* websocket.receive() reports the end of the connection
Disconnected(c) == closed[c] \/ (~alive[c] /\ inbox[c] = <<>>)

\* the handler takes the frame at the head
Received(c) ==
    /\ rx' = [rx EXCEPT ![c] = Append(@, Head(inbox[c]))]
    /\ inbox' = [inbox EXCEPT ![c] = Tail(@)]

\* time passes
Tick ==
    /\ now < MaxNow
    /\ now' = now + 1
    /\ UNCHANGED <<connection_counts, sessions, sess, pc, mode, user_id,
                   session_id, session, alive, closed, outbox, inbox, rx, processed,
                   iter, raised, start, nframes, sweeper>>


(* ---------------------------- handle_sender --------------------------- *)

\* The exception a failed send raises: RuntimeError on a socket the server
\* has closed, WebSocketDisconnect on one whose client has gone.
SendException(r) == IF closed[r] THEN "RuntimeError" ELSE "WebSocketDisconnect"
\* websocket.py:148 and 242: the handler catches WebSocketDisconnect only
Reraised(exc) == exc # "WebSocketDisconnect"

\* websocket.py:60-67
AttachSender(c, sid, m, uid, gone, unnoticed) ==
    /\ m = "sender"
    /\ Admit(c, sid, m, uid, gone)
    /\ sess' = [update_activity(create_session_obj(sid), CreatedObj(sid))
                    EXCEPT ![CreatedObj(sid)].sender = c]
    /\ outbox' = FirstOut(c, Status("waiting"), gone)
    /\ pc' = [pc EXCEPT ![c] = IF FirstRaises(gone, unnoticed)
                                THEN "finally" ELSE "s_waiting"]
    /\ UNCHANGED <<now, closed, inbox, rx, iter, raised, start, nframes,
                   sweeper>>

\* the handler resumes at websocket.py:71 or after the sleep of line 73
SenderResumed(c) ==
    IF pc[c] = "s_waiting" THEN sess ELSE update_activity(sess, session[c])
SenderStart(c) == IF pc[c] = "s_waiting" THEN now ELSE start[c]

\* websocket.py:72-74: no receiver yet and the timeout not reached
SenderSleep(c) ==
    /\ pc[c] \in {"s_waiting", "s_sleep"}
    /\ sess[session[c]].receiver = 0
    /\ now - SenderStart(c) < RendezvousTimeout
    /\ sess' = SenderResumed(c)
    /\ start' = [start EXCEPT ![c] = SenderStart(c)]
    /\ pc' = [pc EXCEPT ![c] = "s_sleep"]
    /\ UNCHANGED <<now, connection_counts, sessions, mode, user_id, session_id,
                   session, alive, closed, outbox, inbox, rx, processed, iter, raised,
                   nframes, sweeper>>

\* websocket.py:76-77: the loop ends without a receiver
SenderTimeout(c, unnoticed) ==
    /\ pc[c] \in {"s_waiting", "s_sleep"}
    /\ sess[session[c]].receiver = 0
    /\ ~(now - SenderStart(c) < RendezvousTimeout)
    /\ sess' = SenderResumed(c)
    /\ start' = [start EXCEPT ![c] = SenderStart(c)]
    /\ outbox' = Out(outbox, c, Error("Receiver timeout"))
    /\ pc' = [pc EXCEPT ![c] = IF SendRaises(c, unnoticed)
                                THEN "finally" ELSE "s_timeout"]
    /\ UNCHANGED <<now, connection_counts, sessions, mode, user_id, session_id,
                   session, alive, closed, inbox, rx, processed, iter, raised,
                   nframes, sweeper>>

\* websocket.py:78-79
SenderTimedOut(c) ==
    /\ pc[c] = "s_timeout"
    /\ sessions' = remove_session(sessions, session_id[c])
    /\ ExitHandler(c, FALSE, outbox, closed)
    /\ UNCHANGED <<now, sess, mode, user_id, session_id, session, alive, inbox, rx,
                   processed, iter, raised, start, nframes, sweeper>>

\* a sender that goes on without noting when the transfer starts
SenderReady_NoStart(c, unnoticed) ==
    /\ pc[c] \in {"s_waiting", "s_sleep"}
    /\ sess[session[c]].receiver # 0
    /\ sess' = [SenderResumed(c) EXCEPT ![session[c]].is_active = TRUE]
    /\ start' = [start EXCEPT ![c] = SenderStart(c)]
    /\ outbox' = Out(outbox, c, Frame("ready", 0, sess[session[c]].messages))
    /\ pc' = [pc EXCEPT ![c] = IF SendRaises(c, unnoticed)
                                THEN "finally" ELSE "s_recv"]
    /\ UNCHANGED <<now, connection_counts, sessions, mode, user_id, session_id,
                   session, alive, closed, inbox, rx, processed, iter, raised,
                   nframes, sweeper>>

\* websocket.py:81-90: the loop ends with a receiver attached
SenderReady(c, unnoticed) ==
    /\ pc[c] \in {"s_waiting", "s_sleep"}
    /\ sess[session[c]].receiver # 0
    /\ sess' = [SenderResumed(c) EXCEPT ![session[c]].is_active = TRUE,
                                        ![session[c]].start_time = now]
    /\ start' = [start EXCEPT ![c] = SenderStart(c)]
    /\ outbox' = Out(outbox, c, Frame("ready", 0, sess[session[c]].messages))
    /\ pc' = [pc EXCEPT ![c] = IF SendRaises(c, unnoticed)
                                THEN "finally" ELSE "s_recv"]
    /\ UNCHANGED <<now, connection_counts, sessions, mode, user_id, session_id,
                   session, alive, closed, inbox, rx, processed, iter, raised,
                   nframes, sweeper>>

\* a teardown that closes the receiver without telling it
SenderTeardown_NoNotice(c, S, ob, reraise, unnoticed) ==
    LET s == session[c]
        r == S[s].receiver
    IN  /\ sess' = [S EXCEPT ![s].is_active = FALSE, ![s].end_time = now]
        /\ IF r # 0 /\ ~closed[r]
           THEN /\ outbox' = ob
                /\ closed' = [closed EXCEPT ![r] = TRUE]
                /\ raised' = [raised EXCEPT ![c] = reraise]
                /\ pc' = [pc EXCEPT ![c] = "s_closing"]
                /\ UNCHANGED <<sessions, connection_counts>>
           ELSE /\ sessions' = remove_session(sessions, session_id[c])
                /\ raised' = raised
                /\ ExitHandler(c, reraise, ob, closed)

\* websocket.py:150-159, the finally block of handle_sender, entered with the
\* objects S and the outboxes ob: awaiting the send to the receiver suspends
\* the handler before remove_session
SenderTeardown(c, S, ob, reraise, unnoticed) ==
    LET s == session[c]
        r == S[s].receiver
    IN  /\ sess' = [S EXCEPT ![s].is_active = FALSE, ![s].end_time = now]
        /\ IF r # 0 /\ ~closed[r]
           THEN /\ outbox' = Out(ob, r, Event("transfer_complete"))
                /\ closed' = [closed EXCEPT ![r] = ~SendRaises(r, unnoticed)]
                /\ raised' = [raised EXCEPT ![c] = reraise]
                /\ pc' = [pc EXCEPT ![c] = "s_closing"]
                /\ UNCHANGED <<sessions, connection_counts>>
           ELSE /\ sessions' = remove_session(sessions, session_id[c])
                /\ raised' = raised
                /\ ExitHandler(c, reraise, ob, closed)

\* websocket.py:159
SenderClosed(c) ==
    /\ pc[c] = "s_closing"
    /\ sessions' = remove_session(sessions, session_id[c])
    /\ ExitHandler(c, raised[c], outbox, closed)
    /\ UNCHANGED <<now, sess, mode, user_id, session_id, session, alive, inbox, rx,
                   processed, iter, raised, start, nframes, sweeper>>

\* A frame of the streaming loop is done: frame f goes to the receiver when
\* one is attached (websocket.py:103, 110, 118, 123, 135); a send that
\* raises ends the loop. After a binary frame the speed update goes to the
\* sender when a second has passed (websocket.py:138-146).
SenderForward(c, S, f, speed, unnoticed) ==
    LET r == S[session[c]].receiver
        ob == IF r # 0 THEN Out(outbox, r, f) ELSE outbox
    IN  IF r # 0 /\ SendRaises(r, unnoticed)
        THEN SenderTeardown(c, S, outbox, Reraised(SendException(r)), unnoticed)
        ELSE IF speed /\ SendRaises(c, unnoticed)
        THEN SenderTeardown(c, S, ob, Reraised(SendException(c)), unnoticed)
        ELSE /\ sess' = S
             /\ outbox' = IF speed THEN Out(ob, c, Event("speed_update"))
                          ELSE ob
             /\ UNCHANGED <<pc, sessions, connection_counts, closed, raised>>

\* handle_sender takes a frame in its streaming loop (websocket.py:95)
SenderReceives(c, f) ==
    /\ pc[c] = "s_recv"
    /\ CanReceive(c)
    /\ Head(inbox[c]) = f
    /\ Received(c)
    /\ processed' = [processed EXCEPT ![session[c]] = Append(@, f)]
    /\ UNCHANGED <<now, mode, user_id, session_id, session, alive, iter,
                   start, nframes, sweeper>>

\* websocket.py:100-107
SenderChat(c, text, unnoticed) ==
    /\ SenderReceives(c, Frame("chat", c, text))
    /\ SenderForward(c,
          update_activity(add_message(sess, session[c], "sender", text),
                          session[c]),
          Frame("chat", c, <<msg_data("sender", text)>>), FALSE, unnoticed)

\* websocket.py:109-114
SenderTyping(c, unnoticed) ==
    /\ SenderReceives(c, Frame("typing", c, <<>>))
    /\ SenderForward(c, sess, Frame("typing", c, <<"sender">>), FALSE,
                     unnoticed)

\* a pause that starts the count afresh
SenderPause_Restarts(c, unnoticed) ==
    /\ SenderReceives(c, Frame("pause", c, <<>>))
    /\ SenderForward(c, [sess EXCEPT ![session[c]].paused = TRUE,
                                      ![session[c]].bytes_transferred = 0],
                     Event("paused"), FALSE, unnoticed)

\* websocket.py:116-119
SenderPause(c, unnoticed) ==
    /\ SenderReceives(c, Frame("pause", c, <<>>))
    /\ SenderForward(c, [sess EXCEPT ![session[c]].paused = TRUE],
                     Event("paused"), FALSE, unnoticed)

\* websocket.py:121-124
SenderResume(c, unnoticed) ==
    /\ SenderReceives(c, Frame("resume", c, <<>>))
    /\ SenderForward(c, [sess EXCEPT ![session[c]].paused = FALSE],
                     Event("resumed"), FALSE, unnoticed)

\* websocket.py:126-128, and a text frame of any other type
SenderPong(c, ty) ==
    /\ ty \in {"pong", "other"}
    /\ SenderReceives(c, Frame(ty, c, <<>>))
    /\ sess' = IF ty = "pong" THEN update_activity(sess, session[c]) ELSE sess
    /\ UNCHANGED <<pc, sessions, connection_counts, closed, raised, outbox>>

\* websocket.py:98: json.loads raises on a text frame that is not JSON
SenderBadJson(c, unnoticed) ==
    /\ SenderReceives(c, Frame("badjson", c, <<>>))
    /\ SenderTeardown(c, sess, outbox, TRUE, unnoticed)

\* a sender handler that forwards a binary frame whatever session.paused is
SenderBinary_IgnoresPause(c, chunk, speed, unnoticed) ==
    /\ SenderReceives(c, Frame("bytes", c, chunk))
    /\ SenderForward(c,
          update_activity(
            [sess EXCEPT ![session[c]].bytes_transferred = @ + Len(chunk)],
            session[c]),
          Frame("bytes", c, chunk), speed, unnoticed)

\* a sender handler that counts frames, not bytes
SenderBinary_CountsFrames(c, chunk, speed, unnoticed) ==
    /\ SenderReceives(c, Frame("bytes", c, chunk))
    /\ IF sess[session[c]].paused
       THEN UNCHANGED <<sess, outbox, pc, sessions, connection_counts, closed,
                        raised>>
       ELSE SenderForward(c,
              update_activity(
                [sess EXCEPT ![session[c]].bytes_transferred = @ + 1],
                session[c]),
              Frame("bytes", c, chunk), speed, unnoticed)

\* websocket.py:130-146: a binary frame
SenderBinary(c, chunk, speed, unnoticed) ==
    /\ SenderReceives(c, Frame("bytes", c, chunk))
    /\ IF sess[session[c]].paused
       THEN UNCHANGED <<sess, outbox, pc, sessions, connection_counts, closed,
                        raised>>
       ELSE SenderForward(c,
              update_activity(
                [sess EXCEPT ![session[c]].bytes_transferred = @ + Len(chunk)],
                session[c]),
              Frame("bytes", c, chunk), speed, unnoticed)

\* websocket.py:95, 148-149: the connection of the sender has ended
SenderDisconnect(c, exc, unnoticed) ==
    /\ pc[c] = "s_recv"
    /\ Disconnected(c)
    /\ exc \in {"WebSocketDisconnect", "RuntimeError"}
    /\ SenderTeardown(c, sess, outbox, Reraised(exc), unnoticed)
    /\ UNCHANGED <<now, mode, user_id, session_id, session, alive, inbox, rx,
                   processed, iter, start, nframes, sweeper>>


(* --------------------------- handle_receiver -------------------------- *)

\* websocket.py:266-276
AttachReceiver(c, sid, m, uid, gone, unnoticed) ==
    /\ m = "receiver"
    /\ Admit(c, sid, m, uid, gone)
    /\ sess' = [update_activity(create_session_obj(sid), CreatedObj(sid))
                    EXCEPT ![CreatedObj(sid)].receiver = c]
    /\ outbox' = FirstOut(c, Frame("connected", 0,
                     create_session_obj(sid)[CreatedObj(sid)].messages), gone)
    /\ pc' = [pc EXCEPT ![c] = IF FirstRaises(gone, unnoticed)
                                THEN "finally" ELSE "r_connected"]
    /\ UNCHANGED <<now, closed, inbox, rx, iter, raised, start, nframes,
                   sweeper>>

\* websocket.py:278-286: the sender is told, whatever becomes of the send
ReceiverNotify(c) ==
    /\ pc[c] = "r_connected"
    /\ outbox' = IF sess[session[c]].sender # 0
                 THEN Out(outbox, sess[session[c]].sender,
                          Status("receiver_connected"))
                 ELSE outbox
    /\ pc' = [pc EXCEPT ![c] = "r_recv"]
    /\ UNCHANGED <<now, connection_counts, sessions, sess, mode, user_id,
                   session_id, session, alive, closed, inbox, rx, processed, iter,
                   raised, start, nframes, sweeper>>

\* websocket.py:316-318: handle_receiver ends on exception exc, with the
\* objects S and the outboxes ob; only WebSocketDisconnect is caught
ReceiverExit(c, S, ob, exc) ==
    /\ sess' = IF exc = "WebSocketDisconnect"
               THEN [S EXCEPT ![session[c]].receiver = 0] ELSE S
    /\ ExitHandler(c, Reraised(exc), ob, closed)

\* frame f goes to the sender when one is attached (websocket.py:298, 305)
ReceiverForward(c, S, f, unnoticed) ==
    LET snd == S[session[c]].sender
    IN  IF snd # 0 /\ SendRaises(snd, unnoticed)
        THEN ReceiverExit(c, S, outbox, SendException(snd))
        ELSE /\ sess' = S
             /\ outbox' = IF snd # 0 THEN Out(outbox, snd, f) ELSE outbox
             /\ UNCHANGED <<pc, connection_counts, closed>>

\* handle_receiver takes a frame (websocket.py:290)
ReceiverReceives(c, f) ==
    /\ pc[c] = "r_recv"
    /\ CanReceive(c)
    /\ Head(inbox[c]) = f
    /\ Received(c)
    /\ UNCHANGED <<now, sessions, mode, user_id, session_id, session, alive,
                   processed, iter, raised, start, nframes, sweeper>>

\* websocket.py:295-302
ReceiverChat(c, text, unnoticed) ==
    /\ ReceiverReceives(c, Frame("chat", c, text))
    /\ ReceiverForward(c,
          update_activity(add_message(sess, session[c], "receiver", text),
                          session[c]),
          Frame("chat", c, <<msg_data("receiver", text)>>), unnoticed)

\* websocket.py:304-309
ReceiverTyping(c, unnoticed) ==
    /\ ReceiverReceives(c, Frame("typing", c, <<>>))
    /\ ReceiverForward(c, sess, Frame("typing", c, <<"receiver">>), unnoticed)

\* websocket.py:311-312; a text frame of any other type and a binary frame
\* are read and left alone
ReceiverPong(c, f) ==
    /\ \/ f \in {Frame(ty, c, <<>>) : ty \in {"pong", "other"}}
       \/ f \in {Frame("bytes", c, chunk) : chunk \in Chunks}
    /\ ReceiverReceives(c, f)
    /\ sess' = IF f.k = "pong" THEN update_activity(sess, session[c]) ELSE sess
    /\ UNCHANGED <<pc, connection_counts, closed, outbox>>

\* websocket.py:293: json.loads raises
ReceiverBadJson(c) ==
    /\ ReceiverReceives(c, Frame("badjson", c, <<>>))
    /\ ReceiverExit(c, sess, outbox, "JSONDecodeError")

\* websocket.py:290, 316-318: the connection of the receiver has ended
ReceiverDisconnect(c, exc) ==
    /\ pc[c] = "r_recv"
    /\ Disconnected(c)
    /\ exc \in {"WebSocketDisconnect", "RuntimeError"}
    /\ ReceiverExit(c, sess, outbox, exc)
    /\ UNCHANGED <<now, sessions, mode, user_id, session_id, session, alive,
                   inbox, rx, processed, iter, raised, start, nframes, sweeper>>


(* ----------------------------- handle_peer ---------------------------- *)

\* A for-loop over session.peers: the list object it walks, the entries it
\* has passed, whether the list is still the one session.peers names (an
\* append to session.peers then shows in the loop), the frame it sends and
\* the handler's peer_count.
NoIter == [lst |-> <<>>, i |-> 0, live |-> FALSE, f |-> Event("none"), n |-> 0]
Loop(lst, i, f, n) == [lst |-> lst, i |-> i, live |-> TRUE, f |-> f, n |-> n]

\* The next entry after the i-th at which the loop awaits a send: an entry
\* of the user itself is skipped (websocket.py:182, 210, 225; uid 0 skips
\* none, websocket.py:250) and a send on a socket the server has closed
\* raises at once and is swallowed. 0 when the loop is over.
NextPeer(lst, i, uid) ==
    LET js == {j \in (i + 1)..Len(lst) :
                  lst[j].user_id # uid /\ ~closed[lst[j].websocket]}
    IN  IF js = {} THEN 0 ELSE CHOOSE j \in js : \A k \in js : j <= k

\* session.peers.append(entry) on object s, seen by the loops on that list
AppendSeen(s, entry) ==
    [d \in Conns |-> IF iter[d].live /\ session[d] = s
                     THEN [iter[d] EXCEPT !.lst = Append(@, entry)]
                     ELSE iter[d]]
\* session.peers = [...] on object s: the loops keep the list they walk
Rebound(s) ==
    [d \in Conns |-> IF iter[d].live /\ session[d] = s
                     THEN [iter[d] EXCEPT !.live = FALSE]
                     ELSE iter[d]]

\* websocket.py:161-178
AttachPeer(c, sid, m, uid, gone, unnoticed) ==
    /\ m = "peer"
    /\ Admit(c, sid, m, uid, gone)
    /\ LET s == CreatedObj(sid)
           entry == [user_id |-> uid, websocket |-> c]
           S == update_activity(
                  [create_session_obj(sid) EXCEPT ![s].hasPeers = TRUE,
                                                  ![s].peers = Append(@, entry)],
                  s)
       IN  /\ sess' = S
           /\ outbox' = FirstOut(c, Frame("connected", 0, S[s].messages),
                                 gone)
           /\ IF FirstRaises(gone, unnoticed)
              THEN /\ pc' = [pc EXCEPT ![c] = "finally"]
                   /\ iter' = AppendSeen(s, entry)
              ELSE /\ pc' = [pc EXCEPT ![c] = "p_notify"]
                   /\ iter' = [AppendSeen(s, entry) EXCEPT ![c] =
                                 Loop(S[s].peers, 0, Status("peer_joined"),
                                      Len(S[s].peers))]
    /\ UNCHANGED <<now, closed, inbox, rx, raised, start, nframes, sweeper>>

\* websocket.py:181-190: the next peer is told
PeerNotifyNext(c) ==
    /\ pc[c] = "p_notify"
    /\ LET j == NextPeer(iter[c].lst, iter[c].i, user_id[c])
       IN  /\ j # 0
           /\ outbox' = Out(outbox, iter[c].lst[j].websocket, iter[c].f)
           /\ iter' = [iter EXCEPT ![c].i = j]
    /\ UNCHANGED <<now, connection_counts, sessions, sess, pc, mode, user_id,
                   session_id, session, alive, closed, inbox, rx, processed, raised,
                   start, nframes, sweeper>>

\* websocket.py:192-195: the loop is over
PeerNotifyDone(c) ==
    /\ pc[c] = "p_notify"
    /\ NextPeer(iter[c].lst, iter[c].i, user_id[c]) = 0
    /\ sess' = [sess EXCEPT ![session[c]].is_active = TRUE,
                            ![session[c]].start_time =
                                IF iter[c].n = 1 THEN now ELSE @]
    /\ iter' = [iter EXCEPT ![c] = NoIter]
    /\ pc' = [pc EXCEPT ![c] = "p_recv"]
    /\ UNCHANGED <<now, connection_counts, sessions, mode, user_id, session_id,
                   session, alive, closed, outbox, inbox, rx, processed, raised,
                   start, nframes, sweeper>>

\* websocket.py:261-264 and the way out of handle_peer, with the objects S,
\* the outboxes ob and the loops it
PeerLeft(c, S, ob, it, reraise) ==
    /\ IF Len(S[session[c]].peers) = 0
       THEN /\ sess' = [S EXCEPT ![session[c]].is_active = FALSE,
                                 ![session[c]].end_time = now]
            /\ sessions' = remove_session(sessions, session_id[c])
       ELSE /\ sess' = S
            /\ sessions' = sessions
    /\ iter' = [it EXCEPT ![c] = NoIter]
    /\ ExitHandler(c, reraise, ob, closed)

\* websocket.py:244-258, the finally block of handle_peer: every entry with
\* the user_id of the handler leaves the list, and the others are told
PeerTeardown(c, S, ob, reraise) ==
    LET s == session[c]
        Others(p) == p.user_id # user_id[c]
        left == SelectSeq(S[s].peers, Others)
        S1 == [S EXCEPT ![s].peers = left]
        j == NextPeer(left, 0, 0)
    IN  IF j # 0
        THEN /\ sess' = S1
             /\ outbox' = Out(ob, left[j].websocket, Event("peer_left"))
             /\ iter' = [Rebound(s) EXCEPT ![c] =
                            Loop(left, j, Event("peer_left"), 0)]
             /\ raised' = [raised EXCEPT ![c] = reraise]
             /\ pc' = [pc EXCEPT ![c] = "p_leaving"]
             /\ UNCHANGED <<sessions, connection_counts, closed>>
        ELSE /\ PeerLeft(c, S1, ob, Rebound(s), reraise)
             /\ raised' = raised

\* websocket.py:250-258: the next peer is told
PeerLeaveNext(c) ==
    /\ pc[c] = "p_leaving"
    /\ LET j == NextPeer(iter[c].lst, iter[c].i, 0)
       IN  /\ j # 0
           /\ outbox' = Out(outbox, iter[c].lst[j].websocket, iter[c].f)
           /\ iter' = [iter EXCEPT ![c].i = j]
    /\ UNCHANGED <<now, connection_counts, sessions, sess, pc, mode, user_id,
                   session_id, session, alive, closed, inbox, rx, processed, raised,
                   start, nframes, sweeper>>

\* websocket.py:260-264: the loop is over
PeerLeaveDone(c) ==
    /\ pc[c] = "p_leaving"
    /\ NextPeer(iter[c].lst, iter[c].i, 0) = 0
    /\ PeerLeft(c, sess, outbox, iter, raised[c])
    /\ UNCHANGED <<now, mode, user_id, session_id, session, alive, inbox, rx,
                   processed, raised, start, nframes, sweeper>>

\* The end of a broadcast loop of the read loop: after a binary frame the
\* speed update goes to the peer itself when a second has passed
\* (websocket.py:232-240); a send that raises ends the read loop.
PeerLoopEnd(c, S, ob, it, f, speed, unnoticed) ==
    IF f.k = "bytes" /\ speed /\ SendRaises(c, unnoticed)
    THEN PeerTeardown(c, S, ob, Reraised(SendException(c)))
    ELSE /\ sess' = S
         /\ outbox' = IF f.k = "bytes" /\ speed
                      THEN Out(ob, c, Event("speed_update")) ELSE ob
         /\ iter' = [it EXCEPT ![c] = NoIter]
         /\ pc' = [pc EXCEPT ![c] = "p_recv"]
         /\ UNCHANGED <<sessions, connection_counts, closed, raised>>

\* websocket.py:209-217 and 224-229: frame f is sent to the other peers
PeerBroadcast(c, S, f, speed, unnoticed) ==
    LET lst == S[session[c]].peers
        j == NextPeer(lst, 0, user_id[c])
    IN  IF j # 0
        THEN /\ sess' = S
             /\ outbox' = Out(outbox, lst[j].websocket, f)
             /\ iter' = [iter EXCEPT ![c] = Loop(lst, j, f, 0)]
             /\ pc' = [pc EXCEPT ![c] = "p_bcast"]
             /\ UNCHANGED <<sessions, connection_counts, closed, raised>>
        ELSE PeerLoopEnd(c, S, outbox, iter, f, speed, unnoticed)

\* the broadcast goes on
PeerBroadcastNext(c) ==
    /\ pc[c] = "p_bcast"
    /\ LET j == NextPeer(iter[c].lst, iter[c].i, user_id[c])
       IN  /\ j # 0
           /\ outbox' = Out(outbox, iter[c].lst[j].websocket, iter[c].f)
           /\ iter' = [iter EXCEPT ![c].i = j]
    /\ UNCHANGED <<now, connection_counts, sessions, sess, pc, mode, user_id,
                   session_id, session, alive, closed, inbox, rx, processed, raised,
                   start, nframes, sweeper>>

\* the broadcast is over
PeerBroadcastDone(c, speed, unnoticed) ==
    /\ pc[c] = "p_bcast"
    /\ NextPeer(iter[c].lst, iter[c].i, user_id[c]) = 0
    /\ PeerLoopEnd(c, sess, outbox, iter, iter[c].f, speed, unnoticed)
    /\ UNCHANGED <<now, mode, user_id, session_id, session, alive, inbox, rx,
                   processed, start, nframes, sweeper>>

\* handle_peer takes a frame (websocket.py:200)
PeerReceives(c, f) ==
    /\ pc[c] = "p_recv"
    /\ CanReceive(c)
    /\ Head(inbox[c]) = f
    /\ Received(c)
    /\ UNCHANGED <<now, mode, user_id, session_id, session, alive, processed,
                   start, nframes, sweeper>>

\* websocket.py:205-217
PeerChat(c, text, unnoticed) ==
    /\ PeerReceives(c, Frame("chat", c, text))
    /\ PeerBroadcast(c,
          update_activity(
             add_message(sess, session[c], ToString(user_id[c]), text),
             session[c]),
          Frame("chat", c, <<msg_data(ToString(user_id[c]), text)>>),
          FALSE, unnoticed)

\* websocket.py:218-240
PeerBinary(c, chunk, speed, unnoticed) ==
    /\ PeerReceives(c, Frame("bytes", c, chunk))
    /\ PeerBroadcast(c,
          update_activity(
             [sess EXCEPT ![session[c]].bytes_transferred = @ + Len(chunk)],
             session[c]),
          Frame("bytes", c, chunk), speed, unnoticed)

\* websocket.py:205: a text frame of any type but chat is read and left alone
PeerIgnored(c, ty) ==
    /\ ty \in {"typing", "pause", "resume", "pong", "other"}
    /\ PeerReceives(c, Frame(ty, c, <<>>))
    /\ UNCHANGED <<sess, outbox, iter, pc, sessions, connection_counts, closed,
                   raised>>

\* websocket.py:203: json.loads raises
PeerBadJson(c) ==
    /\ PeerReceives(c, Frame("badjson", c, <<>>))
    /\ PeerTeardown(c, sess, outbox, TRUE)

\* websocket.py:200, 242-243: the connection of the peer has ended
PeerDisconnect(c, exc) ==
    /\ pc[c] = "p_recv"
    /\ Disconnected(c)
    /\ exc \in {"WebSocketDisconnect", "RuntimeError"}
    /\ PeerTeardown(c, sess, outbox, Reraised(exc))
    /\ UNCHANGED <<now, mode, user_id, session_id, session, alive, inbox, rx,
                   processed, start, nframes, sweeper>>


(* ----------------------- cleanup_stale_sessions ----------------------- *)

\* The sweeper: where its coroutine is suspended, the session_ids its pass
\* has still to take, the session whose endpoints it is closing, and for
\* the current pass the session objects its snapshot found stale and those
\* it has taken out of the registry.
Asleep == [pc |-> "sleep", stale |-> <<>>, cur |-> 0, found |-> {},
           popped |-> {}]

\* a test that passes over a session that has an endpoint
IsStale_Vacant(sid) ==
    /\ sessions[sid] # 0
    /\ now - sess[sessions[sid]].last_activity > SESSION_TIMEOUT
    /\ sess[sessions[sid]].sender = 0 /\ sess[sessions[sid]].receiver = 0

\* session_manager.py:67
IsStale(sid) ==
    /\ sessions[sid] # 0
    /\ now - sess[sessions[sid]].last_activity > SESSION_TIMEOUT
\* session_manager.py:65-68: the stale session_ids in the order of the
\* registry, a dict, which is the order in which the sessions were created
stale_sessions ==
    LET Stale(o) == sessions[sess[o].session_id] = o
                      /\ IsStale(sess[o].session_id)
        os == SelectSeq([o \in 1..Len(sess) |-> o], Stale)
    IN  [i \in 1..Len(os) |-> sess[os[i]].session_id]

\* session_manager.py:69-72: the loop runs, from registry R, list L and the
\* popped sessions P, up to the first session that has an endpoint to close
RECURSIVE SweepPops(_, _, _)
SweepPops(R, L, P) ==
    IF L = <<>> THEN [R |-> R, L |-> L, o |-> 0, P |-> P]
    ELSE LET o == R[Head(L)]
         IN  IF o # 0 /\ (sess[o].sender # 0 \/ sess[o].receiver # 0)
             THEN [R |-> remove_session(R, Head(L)), L |-> Tail(L), o |-> o,
                   P |-> P \cup {o}]
             ELSE SweepPops(remove_session(R, Head(L)), Tail(L),
                            IF o # 0 THEN P \cup {o} ELSE P)

\* session_manager.py:69-82: the sweeper runs until it awaits the close of
\* an endpoint or the list is done
SweepPop(L, found) ==
    LET p == SweepPops(sessions, L, IF sweeper.pc = "sleep" THEN {}
                                    ELSE sweeper.popped)
        e == IF p.o = 0 THEN 0
             ELSE IF sess[p.o].sender # 0 THEN sess[p.o].sender
             ELSE sess[p.o].receiver
    IN  /\ sessions' = p.R
        /\ closed' = IF e = 0 THEN closed ELSE [closed EXCEPT ![e] = TRUE]
        /\ sweeper' = [pc |-> IF p.o = 0 THEN "sleep"
                              ELSE IF sess[p.o].sender # 0 THEN "close_sender"
                              ELSE "close_receiver",
                       stale |-> p.L, cur |-> p.o, found |-> found,
                       popped |-> p.P]

\* session_manager.py:63-72: the sweeper wakes up and finds stale sessions
SweepScan ==
    /\ sweeper.pc = "sleep"
    /\ stale_sessions # <<>>
    /\ SweepPop(stale_sessions,
                {sessions[sid] : sid \in {s \in SessionIds : IsStale(s)}})
    /\ UNCHANGED <<now, connection_counts, sess, pc, mode, user_id, session_id,
                   session, alive, outbox, inbox, rx, processed, iter, raised, start,
                   nframes>>

\* session_manager.py:73-82: the close of the sender is over; the receiver
\* the session has now is closed, or the loop goes on
SweepCloseReceiver ==
    /\ sweeper.pc = "close_sender"
    /\ IF sess[sweeper.cur].receiver # 0
       THEN /\ closed' = [closed EXCEPT ![sess[sweeper.cur].receiver] = TRUE]
            /\ sweeper' = [sweeper EXCEPT !.pc = "close_receiver"]
            /\ UNCHANGED sessions
       ELSE SweepPop(sweeper.stale, sweeper.found)
    /\ UNCHANGED <<now, connection_counts, sess, pc, mode, user_id, session_id,
                   session, alive, outbox, inbox, rx, processed, iter, raised, start,
                   nframes>>

\* session_manager.py:78-82, 69: the close of the receiver is over
SweepNext ==
    /\ sweeper.pc = "close_receiver"
    /\ SweepPop(sweeper.stale, sweeper.found)
    /\ UNCHANGED <<now, connection_counts, sess, pc, mode, user_id, session_id,
                   session, alive, outbox, inbox, rx, processed, iter, raised, start,
                   nframes>>

(* --------------------------- specification ---------------------------- *)

Init ==
    /\ now = 0
    /\ connection_counts = [u \in Users |-> 0]
    /\ sessions = [sid \in SessionIds |-> 0]
    /\ sess = <<>>
    /\ pc = [c \in Conns |-> "idle"]
    /\ mode = [c \in Conns |-> "none"]
    /\ user_id = [c \in Conns |-> 0]
    /\ session_id = [c \in Conns |-> 0]
    /\ session = [c \in Conns |-> 0]
    /\ alive = [c \in Conns |-> TRUE]
    /\ closed = [c \in Conns |-> FALSE]
    /\ outbox = [c \in Conns |-> <<>>]
    /\ inbox = [c \in Conns |-> <<>>]
    /\ rx = [c \in Conns |-> <<>>]
    /\ processed = <<>>
    /\ iter = [c \in Conns |-> NoIter]
    /\ raised = [c \in Conns |-> FALSE]
    /\ start = [c \in Conns |-> 0]
    /\ nframes = 0
    /\ sweeper = Asleep

Connect(c) ==
    \E sid \in SessionIds, m \in Modes, uid \in Users,
       gone \in BOOLEAN, unnoticed \in BOOLEAN :
        \/ RejectTooMany(c, sid, m, uid, gone, unnoticed)
        \/ RejectCapacity(c, sid, m, uid, gone, unnoticed)
        \/ AttachInvalid(c, sid, m, uid, gone, unnoticed)
        \/ AttachSender(c, sid, m, uid, gone, unnoticed)
        \/ AttachReceiver(c, sid, m, uid, gone, unnoticed)
        \/ AttachPeer(c, sid, m, uid, gone, unnoticed)

Sender(c) ==
    \E unnoticed \in BOOLEAN :
        \/ SenderSleep(c)
        \/ SenderTimeout(c, unnoticed)
        \/ SenderTimedOut(c)
        \/ SenderReady(c, unnoticed)
        \/ \E text \in Texts : SenderChat(c, text, unnoticed)
        \/ SenderTyping(c, unnoticed)
        \/ SenderPause(c, unnoticed)
        \/ SenderResume(c, unnoticed)
        \/ \E ty \in {"pong", "other"} : SenderPong(c, ty)
        \/ SenderBadJson(c, unnoticed)
        \/ \E chunk \in Chunks, speed \in BOOLEAN :
              SenderBinary(c, chunk, speed, unnoticed)
        \/ \E exc \in {"WebSocketDisconnect", "RuntimeError"} :
              SenderDisconnect(c, exc, unnoticed)
        \/ SenderClosed(c)

Receiver(c) ==
    \E unnoticed \in BOOLEAN :
        \/ ReceiverNotify(c)
        \/ \E text \in Texts : ReceiverChat(c, text, unnoticed)
        \/ ReceiverTyping(c, unnoticed)
        \/ \E ty \in {"pong", "other"} : ReceiverPong(c, Frame(ty, c, <<>>))
        \/ \E chunk \in Chunks : ReceiverPong(c, Frame("bytes", c, chunk))
        \/ ReceiverBadJson(c)
        \/ \E exc \in {"WebSocketDisconnect", "RuntimeError"} :
              ReceiverDisconnect(c, exc)

Peer(c) ==
    \E unnoticed \in BOOLEAN, speed \in BOOLEAN :
        \/ PeerNotifyNext(c)
        \/ PeerNotifyDone(c)
        \/ \E text \in Texts : PeerChat(c, text, unnoticed)
        \/ \E chunk \in Chunks : PeerBinary(c, chunk, speed, unnoticed)
        \/ \E ty \in {"typing", "pause", "resume", "pong", "other"} :
              PeerIgnored(c, ty)
        \/ PeerBadJson(c)
        \/ \E exc \in {"WebSocketDisconnect", "RuntimeError"} :
              PeerDisconnect(c, exc)
        \/ PeerBroadcastNext(c)
        \/ PeerBroadcastDone(c, speed, unnoticed)
        \/ PeerLeaveNext(c)
        \/ PeerLeaveDone(c)

Next ==
    \/ \E c \in Conns : Connect(c)
    \/ \E c \in Conns : CapacityClose(c)
    \/ \E c \in Conns : Finally(c)
    \/ \E c \in Conns : ClientDrop(c)
    \/ \E c \in Conns : \E f \in AllFrames(c) : ClientSend(c, f, MaxFrames)
    \/ \E c \in Conns : Sender(c)
    \/ \E c \in Conns : Receiver(c)
    \/ \E c \in Conns : Peer(c)
    \/ SweepScan
    \/ SweepCloseReceiver
    \/ SweepNext
    \/ Tick

Spec == Init /\ [][Next]_vars

(* ---------------------------- the throttle ---------------------------- *)

\* One user holds four connections, receivers of session 1 that stay and
\* keep silent; the NumLate connections that arrive after them take any
\* role, user and session_id, and end in any way.
Crowd == 1..(MaxConnectionsPerUser - 1)
Late == MaxConnectionsPerUser..(MaxConnectionsPerUser + NumLate - 1)

Settled(c) == pc[c] = "r_recv"

CrowdConnect(c) ==
    /\ \A d \in Crowd : d < c => Settled(d)
    /\ AttachReceiver(c, 1, "receiver", 1, FALSE, FALSE)

ThrottleConnect(c) ==
    \E sid \in SessionIds, m \in {"receiver", "bogus"}, uid \in Users,
       gone \in BOOLEAN, unnoticed \in BOOLEAN :
        \/ RejectTooMany(c, sid, m, uid, gone, unnoticed)
        \/ RejectCapacity(c, sid, m, uid, gone, unnoticed)
        \/ AttachInvalid(c, sid, m, uid, gone, unnoticed)
        \/ AttachReceiver(c, sid, m, uid, gone, unnoticed)

LateConnect(c) ==
    /\ \A d \in Crowd : Settled(d)
    /\ ThrottleConnect(c)

ThrottleNext ==
    \/ \E c \in Crowd : CrowdConnect(c)
    \/ \E c \in Late : LateConnect(c)
    \/ \E c \in Late : CapacityClose(c)
    \/ \E c \in Late : Finally(c)
    \/ \E c \in Late : ClientDrop(c)
    \/ \E c \in Crowd \cup Late : ReceiverNotify(c)
    \/ \E c \in Late, exc \in {"WebSocketDisconnect", "RuntimeError"} :
          ReceiverDisconnect(c, exc)

SpecThrottle == Init /\ [][ThrottleNext]_vars

\* ws_transfer takes up connection c in this step
Arrives(c) == pc[c] = "idle" /\ pc'[c] # "idle"
\* connection c is being handled
Handled(c) == pc[c] \notin {"idle", "done"}
\* everything of the connections other than c is as it was
OthersUntouched(c) ==
    \A d \in Conns \ {c} :
        /\ pc'[d] = pc[d] /\ outbox'[d] = outbox[d]
        /\ closed'[d] = closed[d] /\ alive'[d] = alive[d]
        /\ session'[d] = session[d]

\* C1: whenever no connection of a user is being handled,
\* connection_counts[user_id] is 0: every increment ws_transfer made has
\* been matched by a decrement, whichever way the connection ended.
C1_CountZeroWhenUnhandled ==
    \A u \in Users :
        (\A c \in Conns : user_id[c] = u => ~Handled(c))
            => connection_counts[u] = 0

\* C2: the step in which a connection arrives while its user's count is 5
\* sends it "Too many connections" and closes it, and leaves the counter,
\* the registry and every other connection as they were; the step in which
\* a connection arrives while the count is below 5 takes it past the
\* throttle, incrementing the counter.
C2_Step ==
    \A c \in Conns : Arrives(c) =>
        IF connection_counts[user_id'[c]] = MaxConnectionsPerUser
        THEN /\ pc'[c] = "done"
             /\ alive'[c] =>
                   /\ outbox'[c] = <<Error("Too many connections")>>
                   /\ closed'[c]
             /\ connection_counts' = connection_counts
             /\ sessions' = sessions /\ sess' = sess
             /\ OthersUntouched(c)
        ELSE /\ connection_counts' = Acquire(user_id'[c])
             /\ outbox'[c] # <<Error("Too many connections")>>

C3_Step ==
    \A c \in Conns :
        Arrives(c) /\ ~TooManyConnections(user_id'[c]) =>
            LET sid == session_id'[c]
            IN  /\ (NumSessions(sessions) >= MAX_SESSIONS /\ sessions[sid] = 0)
                     => /\ sessions' = sessions /\ sess' = sess
                        /\ session'[c] = 0
                        /\ alive'[c] =>
                              outbox'[c] = <<Error("Server at capacity")>>
                /\ sessions[sid] # 0
                     => /\ sessions' = sessions /\ Len(sess') = Len(sess)
                        /\ session'[c] = sessions[sid]
                        /\ mode'[c] = "receiver" =>
                              sess'[sessions[sid]].receiver = c

\* C3: the registry never holds more than MAX_SESSIONS sessions, and
\* admission at capacity goes by whether the session_id is registered
\* (C3_Step).
C3_Capacity ==
    /\ [](NumSessions(sessions) <= MAX_SESSIONS)
    /\ [][C3_Step]_vars

\* the registry is full; a connection naming a new session_id has been
\* turned away and a later one naming the registered session_id is attached
C3_Witness ==
    \E d \in Conns, e \in Conns :
        /\ d < e /\ pc[d] = "done"
        /\ NumSessions(sessions) = MAX_SESSIONS
        /\ sessions[session_id[d]] = 0
        /\ outbox[d] = <<Error("Server at capacity")>>
        /\ pc[e] = "r_recv"
        /\ sessions[session_id[e]] # 0
        /\ session[e] = sessions[session_id[e]]

(* ---------------------------- the transfer ---------------------------- *)

\* Two connections on session 1, each a sender or a receiver; the client of
\* a sender sends up to MaxTransfer frames: binary ones, pause and resume.
\* The transfer is over within a second, so that no speed update is due.
Pair == 1..2
TransferFrames(c) ==
    BinaryFrames(c) \cup TextFrames(c, {"pause", "resume"})

TransferConnect(c) ==
    \E m \in {"sender", "receiver"}, gone \in BOOLEAN, unnoticed \in BOOLEAN :
        \/ AttachSender(c, 1, m, 1, gone, unnoticed)
        \/ AttachReceiver(c, 1, m, 1, gone, unnoticed)

TransferSend(c) ==
    /\ mode[c] = "sender"
    /\ \E f \in TransferFrames(c) : ClientSend(c, f, MaxTransfer)

TransferSender(c) ==
    \E unnoticed \in BOOLEAN :
        \/ SenderSleep(c)
        \/ SenderReady(c, unnoticed)
        \/ SenderPause(c, unnoticed)
        \/ SenderResume(c, unnoticed)
        \/ \E chunk \in Chunks :
              SenderBinary(c, chunk, FALSE, unnoticed)
        \/ \E exc \in {"WebSocketDisconnect", "RuntimeError"} :
              SenderDisconnect(c, exc, unnoticed)
        \/ SenderClosed(c)

TransferNext ==
    \/ \E c \in Pair : TransferConnect(c)
    \/ \E c \in Pair : TransferSend(c)
    \/ \E c \in Pair : TransferSender(c)
    \/ \E c \in Pair : ReceiverNotify(c)
    \/ \E c \in Pair, exc \in {"WebSocketDisconnect", "RuntimeError"} :
          ReceiverDisconnect(c, exc)
    \/ \E c \in Pair : ClientDrop(c)
    \/ \E c \in Pair : Finally(c)

SpecTransfer == Init /\ [][TransferNext]_vars

(* -------------------------- the mixed session ------------------------- *)

\* The connections of session 1, in this order: a sender, a receiver and
\* peers of users 1, 2, 1, ... The clients stay; the sender's client sends
\* binary frames and pause, the peers' binary frames, and no speed update
\* falls due.
Party == 1..NumParty
MixedMode(c) == IF c = 1 THEN "sender" ELSE IF c = 2 THEN "receiver" ELSE "peer"
MixedUser(c) == ((c - 1) % NumUsers) + 1
MixedFrames(c) ==
    IF mode[c] = "sender"
    THEN BinaryFrames(c) \cup TextFrames(c, {"pause"})
    ELSE IF mode[c] = "peer" THEN BinaryFrames(c) ELSE {}

MixedConnect(c) ==
    \/ AttachSender(c, 1, MixedMode(c), MixedUser(c), FALSE, FALSE)
    \/ AttachReceiver(c, 1, MixedMode(c), MixedUser(c), FALSE, FALSE)
    \/ AttachPeer(c, 1, MixedMode(c), MixedUser(c), FALSE, FALSE)

MixedSend(c) == \E f \in MixedFrames(c) : ClientSend(c, f, MaxMixed)

MixedSender(c) ==
    \/ SenderSleep(c)
    \/ SenderReady(c, FALSE)
    \/ SenderPause(c, FALSE)
    \/ \E chunk \in Chunks : SenderBinary(c, chunk, FALSE, FALSE)

MixedPeer(c) ==
    \/ PeerNotifyNext(c)
    \/ PeerNotifyDone(c)
    \/ \E chunk \in Chunks : PeerBinary(c, chunk, FALSE, FALSE)
    \/ PeerBroadcastNext(c)
    \/ PeerBroadcastDone(c, FALSE, FALSE)

MixedNext ==
    \/ \E c \in Party : MixedConnect(c)
    \/ \E c \in Party : MixedSend(c)
    \/ \E c \in Party : MixedSender(c)
    \/ \E c \in Party : ReceiverNotify(c)
    \/ \E c \in Party : MixedPeer(c)

SpecMixed == Init /\ [][MixedNext]_vars

(* -------------------------- the conversation -------------------------- *)

\* A sender and then a receiver on session 1, whose clients stay and send
\* chat messages, MaxChats in all: the k-th message sent is made of the
\* character k, once or, among the last MaxLong messages,
\* MAX_MESSAGE_LENGTH + 1 times; the receiver's client sends among the last
\* MaxReplies messages only.
Duo == 1..2
ChatText(k, long) ==
    [i \in 1..(IF long THEN MAX_MESSAGE_LENGTH + 1 ELSE 1) |-> k]
ChatTexts == {ChatText(k, long) : k \in 1..MaxChats, long \in BOOLEAN}
\* the frames the client of connection c has sent
Sent(c) == rx[c] \o inbox[c]

ChatConnect(c) ==
    \/ c = 1 /\ AttachSender(c, 1, "sender", 1, FALSE, FALSE)
    \/ c = 2 /\ AttachReceiver(c, 1, "receiver", 1, FALSE, FALSE)

\* a client sends while the sender waits alone or when both have settled
ChatSend(c) ==
    \E long \in BOOLEAN :
        /\ pc[2] = "idle" \/ (pc[1] = "s_recv" /\ pc[2] = "r_recv")
        /\ long => nframes >= MaxChats - MaxLong
        /\ mode[c] = "receiver" => nframes >= MaxChats - MaxReplies
        /\ ClientSend(c, Frame("chat", c, ChatText(nframes + 1, long)),
                      MaxChats)

ChatNext ==
    \/ \E c \in Duo : ChatConnect(c)
    \/ \E c \in Duo : ChatSend(c)
    \/ \E c \in Duo : SenderSleep(c)
    \/ \E c \in Duo : SenderReady(c, FALSE)
    \/ \E c \in Duo : ReceiverNotify(c)
    \/ \E c \in Duo, text \in ChatTexts : SenderChat(c, text, FALSE)
    \/ \E c \in Duo, text \in ChatTexts : ReceiverChat(c, text, FALSE)

SpecChat == Init /\ [][ChatNext]_vars

\* What a sender/receiver session owes its receiver for the frames fs that
\* handle_sender has processed on it, the session paused or not before
\* them: the binary frames processed while not paused, and a notice for
\* every pause and resume.
RECURSIVE Forwarded(_, _)
Forwarded(fs, paused) ==
    IF fs = <<>> THEN <<>>
    ELSE LET f == Head(fs)
         IN  CASE f.k = "pause" ->
                    <<Event("paused")>> \o Forwarded(Tail(fs), TRUE)
               [] f.k = "resume" ->
                    <<Event("resumed")>> \o Forwarded(Tail(fs), FALSE)
               [] f.k = "bytes" /\ ~paused ->
                    <<f>> \o Forwarded(Tail(fs), paused)
               [] OTHER -> Forwarded(Tail(fs), paused)

\* the bytes of the binary frames among fs processed while not paused
RECURSIVE Counted(_, _)
Counted(fs, paused) ==
    IF fs = <<>> THEN 0
    ELSE LET f == Head(fs)
         IN  CASE f.k = "pause" -> Counted(Tail(fs), TRUE)
               [] f.k = "resume" -> Counted(Tail(fs), FALSE)
               [] f.k = "bytes" /\ ~paused -> Len(f.d) + Counted(Tail(fs), paused)
               [] OTHER -> Counted(Tail(fs), paused)

\* a is b with some entries left out
RECURSIVE IsSubseq(_, _)
IsSubseq(a, b) ==
    IF a = <<>> THEN TRUE
    ELSE IF b = <<>> THEN FALSE
    ELSE IF Head(a) = Head(b) THEN IsSubseq(Tail(a), Tail(b))
    ELSE IsSubseq(a, Tail(b))

IsRelayed(f) == f.k \in {"bytes", "paused", "resumed"}
\* the binary frames and the pause and resume notices client c has been sent
Relayed(c) == SelectSeq(outbox[c], IsRelayed)
IsBinary(f) == f.k = "bytes"

Objects == 1..Len(sess)
TornDown(o) == sess[o].end_time # None
\* r is the one receiver session object o ever had, and its client has been
\* there all the time
SoleReceiver(r, o) ==
    /\ mode[r] = "receiver" /\ session[r] = o /\ alive[r]
    /\ \A d \in Conns \ {r} : ~(mode[d] = "receiver" /\ session[d] = o)

\* the binary frames client d has been sent that come from connection c
FromSource(d, c) ==
    LET FromC(f) == f.k = "bytes" /\ f.src = c
    IN  SelectSeq(outbox[d], FromC)
\* the binary frames the handler of connection c has received
BinaryReceived(c) == SelectSeq(rx[c], IsBinary)
HasPause(fs) == \E i \in 1..Len(fs) : fs[i].k = "pause"

\* C4: no session has its sender or receiver slot populated while its
\* peers list is not empty.
C4_ModeLocked ==
    \A o \in Objects :
        ~(/\ sess[o].sender # 0 \/ sess[o].receiver # 0
          /\ Len(sess[o].peers) > 0)

\* C5: the binary frames a client has been sent from one source are, in
\* order and unaltered, among those the handler of that source received,
\* none twice. The only receiver of a session that was never paused has
\* been sent every binary frame the sender handler received, and a peer
\* that attached before a peer of another user and has stayed has been sent
\* every binary frame the other's handler received and broadcast.
C5_PerSourceFifo ==
    \A c \in Conns : \A d \in Conns \ {c} :
        /\ IsSubseq(FromSource(d, c), BinaryReceived(c))
        /\ ( /\ mode[c] = "sender" /\ session[c] # 0
             /\ SoleReceiver(d, session[c]) /\ ~closed[d]
             /\ ~HasPause(processed[session[c]]) )
              => FromSource(d, c) = BinaryReceived(c)
        /\ ( /\ mode[c] = "peer" /\ mode[d] = "peer" /\ d < c
             /\ session[c] = session[d] /\ user_id[c] # user_id[d]
             /\ pc[c] = "p_recv" /\ pc[d] \in {"p_notify", "p_recv", "p_bcast"}
             /\ alive[d] /\ ~closed[d] )
              => FromSource(d, c) = BinaryReceived(c)

\* a peer has sent two different binary frames and the peer of another
\* user has been sent both, in that order; the receiver has been sent the
\* binary frame the sender sent
C5_Witness ==
    \E c \in Conns, d \in Conns, s \in Conns, r \in Conns :
        /\ mode[c] = "peer" /\ mode[d] = "peer"
        /\ Len(BinaryReceived(c)) = 2
        /\ BinaryReceived(c)[1] # BinaryReceived(c)[2]
        /\ FromSource(d, c) = BinaryReceived(c)
        /\ mode[s] = "sender" /\ mode[r] = "receiver"
        /\ Len(BinaryReceived(s)) = 1
        /\ FromSource(r, s) = BinaryReceived(s)

\* C6: the bytes_transferred of a sender/receiver session is the sum of the
\* lengths of the binary frames its sender handler has processed while the
\* session was not paused, at every moment and so after teardown.
C6_BytesTransferred ==
    \A o \in Objects :
        ~sess[o].hasPeers =>
            sess[o].bytes_transferred = Counted(processed[o], FALSE)

\* a session torn down after its sender handler has processed a binary
\* frame while paused and two of MaxChunkLen bytes while not
C6_Witness ==
    \E o \in Objects :
        /\ TornDown(o) /\ sessions[sess[o].session_id] = 0
        /\ sess[o].bytes_transferred = 2 * MaxChunkLen
        /\ Len(SelectSeq(processed[o], IsBinary)) = 3

TakesBinary(c) ==
    /\ Len(rx'[c]) = Len(rx[c]) + 1
    /\ rx'[c][Len(rx'[c])].k = "bytes"

\* C8: the step in which a handler, of a sender or of a peer, takes a
\* binary frame while its session is paused sends nothing to anyone, and
\* starts no loop that would send it later.
C8_Step ==
    \A c \in Conns :
        TakesBinary(c) /\ sess[session[c]].paused
            => outbox' = outbox /\ iter' = iter
C8_PausedDropsAll == [][C8_Step]_vars

Min(a, b) == IF a < b THEN a ELSE b
\* the last n entries of sequence s
LastN(s, n) == SubSeq(s, Len(s) - Min(Len(s), n) + 1, Len(s))

\* the handler of connection c takes a chat frame in this step
TakesChat(c) ==
    /\ Len(rx'[c]) = Len(rx[c]) + 1
    /\ rx'[c][Len(rx'[c])].k = "chat"
\* the first MAX_MESSAGE_LENGTH characters of a text
Truncated(text) == SubSeq(text, 1, Min(Len(text), MAX_MESSAGE_LENGTH))

\* C9: the step in which a handler takes a chat frame adds one entry with
\* the text of the frame, cut to MAX_MESSAGE_LENGTH, at the end of the log
\* of its session and drops the oldest entries so that the MaxMessages most
\* recent remain in the order they were added; any other step leaves the
\* log as it is
C9_Step ==
    \A o \in Objects :
        LET old == sess[o].messages
            new == sess'[o].messages
            takers == {c \in Conns : session[c] = o /\ TakesChat(c)}
        IN  IF takers = {} THEN new = old
            ELSE \E c \in takers :
                    /\ new # <<>>
                    /\ new[Len(new)].message
                          = Truncated(rx'[c][Len(rx'[c])].d)
                    /\ new = LastN(Append(old, new[Len(new)]), MaxMessages)

\* C9: the chat log of every session has at most 100 entries, every stored
\* text is at most MAX_MESSAGE_LENGTH long, and the log grows at its end
\* and loses its oldest entries first (C9_Step).
C9_ChatLog ==
    /\ [](\A o \in Objects :
             /\ Len(sess[o].messages) <= MaxMessages
             /\ \A i \in 1..Len(sess[o].messages) :
                   Len(sess[o].messages[i].message) <= MAX_MESSAGE_LENGTH)
    /\ [][C9_Step]_vars

\* a log of 100 entries that has lost its oldest ones, the newest the last
\* of the MaxChats messages, with a text cut to MAX_MESSAGE_LENGTH and an
\* entry of the receiver in it
C9_Witness ==
    \E o \in Objects :
        LET ms == sess[o].messages
        IN  /\ Len(ms) = MaxMessages
            /\ ms[1].message[1] = MaxChats - MaxMessages + 1
            /\ ms[MaxMessages].message[1] = MaxChats
            /\ \E i \in 1..Len(ms) :
                  /\ Len(ms[i].message) = MAX_MESSAGE_LENGTH
                  /\ \E c \in Conns : \E j \in 1..Len(rx[c]) :
                        /\ Len(rx[c][j].d) > MAX_MESSAGE_LENGTH
                        /\ rx[c][j].d[1] = ms[i].message[1]
            /\ \E i \in 1..Len(ms) : ms[i].sender = "receiver"

IsChat(f) == f.k = "chat"
\* C10: when a receiver attaches to a session that has a sender and never
\* had a receiver, the chat_history of its "connected" frame lists the chat
\* messages the sender's client has sent so far.
C10_Step ==
    \A r \in Conns :
        ( /\ Arrives(r) /\ mode'[r] = "receiver"
          /\ session'[r] \in Objects
          /\ sess[session'[r]].sender # 0
          /\ \A d \in Conns : ~(mode[d] = "receiver" /\ session[d] = session'[r])
          /\ SelectSeq(Sent(sess[session'[r]].sender), IsChat) # <<>> )
        => LET chats == SelectSeq(Sent(sess[session'[r]].sender), IsChat)
           IN  /\ Len(outbox'[r]) = 1
               /\ outbox'[r][1].k = "connected"
               /\ Len(outbox'[r][1].d) = Len(chats)
               /\ \A i \in 1..Len(chats) :
                     /\ outbox'[r][1].d[i].sender = "sender"
                     /\ outbox'[r][1].d[i].message
                           = msg_data("sender", chats[i].d).message
C10_HistoryOnAttach == [][C10_Step]_vars

(* ------------------------ the rendezvous expiry ----------------------- *)

\* Senders and receivers of session 1 arrive one after the other, each
\* present when it attaches; a sender waits for a receiver while the clock
\* runs, and any client may go away while it is attached.
Callers == 1..NumCallers

RendezvousConnect(c) ==
    \E m \in {"sender", "receiver"} :
        \/ AttachSender(c, 1, m, MixedUser(c), FALSE, FALSE)
        \/ AttachReceiver(c, 1, m, MixedUser(c), FALSE, FALSE)

RendezvousNext ==
    \/ \E c \in Callers : RendezvousConnect(c)
    \/ \E c \in Callers : SenderSleep(c)
    \/ \E c \in Callers, unnoticed \in BOOLEAN : SenderTimeout(c, unnoticed)
    \/ \E c \in Callers : SenderTimedOut(c)
    \/ \E c \in Callers : SenderReady(c, FALSE)
    \/ \E c \in Callers : ReceiverNotify(c)
    \/ \E c \in Callers : ClientDrop(c)
    \/ \E c \in Callers : Finally(c)
    \/ Tick

SpecRendezvous == Init /\ [][RendezvousNext]_vars

\* the wait of websocket.py:72-74 is over for sender c with no receiver
Expired(c) ==
    /\ pc[c] \in {"s_waiting", "s_sleep"}
    /\ sess[session[c]].receiver = 0
    /\ ~(now - SenderStart(c) < RendezvousTimeout)

\* handle_sender ends in this step for a sender c that found no receiver
EndsUnmet(c) ==
    /\ pc[c] \in {"s_waiting", "s_sleep", "s_timeout"}
    /\ pc'[c] \in {"finally", "done"}
    /\ sess[session[c]].receiver = 0

\* C11: when the wait of a sender expires with no receiver, a sender that
\* is still there is sent the error frame "Receiver timeout", and on every
\* path on which its handler then ends, the sender gone or not, the session
\* has left the registry.
C11_Step ==
    \A c \in Callers :
        /\ Expired(c) /\ pc'[c] # pc[c] /\ CanDeliver(c)
              => outbox'[c] = Append(outbox[c], Error("Receiver timeout"))
        /\ EndsUnmet(c) => sessions'[session_id[c]] = 0
C11_ReceiverTimeout == [][C11_Step]_vars

(* ------------------------ the end of a transfer ----------------------- *)

\* the streaming loop of sender c ends in this step (websocket.py:148-150)
LoopEnds(c) == mode[c] = "sender" /\ pc[c] = "s_recv" /\ pc'[c] # "s_recv"
\* handle_sender has run its finally block to the end
SenderGone(c) ==
    /\ mode[c] = "sender" /\ pc[c] \in {"finally", "done"}
    /\ sess[session[c]].end_time # None

\* what the teardown of sender c owes an attached receiver r that can be
\* reached: transfer_complete after all it has been sent, and the close
Completes(c) ==
    LET r == sess[session[c]].receiver
        n == Len(outbox'[r])
    IN  r # 0 /\ CanDeliver(r) =>
           /\ n > Len(outbox[r])
           /\ SubSeq(outbox'[r], 1, Len(outbox[r])) = outbox[r]
           /\ outbox'[r][n] = Event("transfer_complete")
           /\ closed'[r]

\* C12: when the streaming loop of a sender ends, by a disconnect or
\* otherwise, the session is marked inactive with its end_time set, an
\* attached receiver is sent transfer_complete after every frame forwarded
\* to it and is closed; nothing follows transfer_complete, and once the
\* handler is over the session is no longer in the registry.
C12_Step ==
    \A c \in Pair :
        LoopEnds(c) =>
            /\ ~sess'[session[c]].is_active
            /\ sess'[session[c]].end_time = now
            /\ Completes(c)
C12_Last ==
    /\ \A c \in Pair : SenderGone(c) => sessions[session_id[c]] # session[c]
    /\ \A r \in Pair : \A i \in 1..Len(outbox[r]) :
          outbox[r][i] = Event("transfer_complete") => i = Len(outbox[r])
C12_Teardown == [][C12_Step]_vars /\ []C12_Last

\* a receiver was forwarded two binary frames, then sent transfer_complete
\* and closed, and the session has left the registry
C12_Witness ==
    \E c \in Pair, r \in Pair :
        /\ SenderGone(c) /\ sessions[session_id[c]] = 0
        /\ closed[r] /\ alive[r]
        /\ Len(outbox[r]) = 4
        /\ IsBinary(outbox[r][2]) /\ IsBinary(outbox[r][3])
        /\ outbox[r][4] = Event("transfer_complete")

(* ---------------------------- the peer group -------------------------- *)

\* Peers of session 1 arrive one after the other, of users 1, 2, 1, ...;
\* their clients send chat messages and binary frames, MaxPeerFrames in
\* all, and may go away at any time. No speed update falls due.
Peers == 1..NumPeers
PeerFrames(c) == {Frame("chat", c, <<1>>), Frame("bytes", c, <<1>>)}

PeersConnect(c) ==
    \E gone \in BOOLEAN : AttachPeer(c, 1, "peer", MixedUser(c), gone, FALSE)

PeersSend(c) == \E f \in PeerFrames(c) : ClientSend(c, f, MaxPeerFrames)

PeersPeer(c) ==
    \/ PeerNotifyNext(c)
    \/ PeerNotifyDone(c)
    \/ PeerChat(c, <<1>>, FALSE)
    \/ PeerBinary(c, <<1>>, FALSE, FALSE)
    \/ PeerBroadcastNext(c)
    \/ PeerBroadcastDone(c, FALSE, FALSE)
    \/ \E exc \in {"WebSocketDisconnect", "RuntimeError"} :
          PeerDisconnect(c, exc)
    \/ PeerLeaveNext(c)
    \/ PeerLeaveDone(c)

PeersNext ==
    \/ \E c \in Peers : PeersConnect(c)
    \/ \E c \in Peers : PeersSend(c)
    \/ \E c \in Peers : PeersPeer(c)
    \/ \E c \in Peers : ClientDrop(c)
    \/ \E c \in Peers : Finally(c)

SpecPeers == Init /\ [][PeersNext]_vars

(* ------------------------- the peer broadcast ------------------------- *)

IsBroadcast(f) == f.k \in {"bytes", "chat"}
\* what a frame carries: the chunk of a binary frame, the text of a chat
\* message as a client sends it and as message_data holds it
Delivered(f) ==
    [k |-> f.k, body |-> IF f.k = "chat" THEN f.d[1].message ELSE f.d]
\* the binary frames and chat messages the handler of peer c has taken, as
\* its peers are to see them
PeerTook(c) ==
    LET fs == SelectSeq(rx[c], IsBroadcast)
    IN  [i \in 1..Len(fs) |->
           [k |-> fs[i].k,
            body |-> IF fs[i].k = "chat"
                     THEN msg_data("", fs[i].d).message ELSE fs[i].d]]
\* the binary frames and chat messages client d has been sent from peer c
PeerGot(d, c) ==
    LET FromC(f) == IsBroadcast(f) /\ f.src = c
        fs == SelectSeq(outbox[d], FromC)
    IN  [i \in 1..Len(fs) |-> Delivered(fs[i])]
\* peer d was attached to the session of peer c before c, and has stayed
AttachedBefore(d, c) ==
    /\ mode[c] = "peer" /\ mode[d] = "peer" /\ d < c
    /\ session[c] = session[d]
    /\ pc[d] \in {"p_notify", "p_recv", "p_bcast"}
    /\ alive[d] /\ ~closed[d]

\* C13: no peer is sent a frame of its own, and once the broadcasts of a
\* peer are over, every other peer that was attached before it and has
\* stayed has been sent each binary frame and chat message its handler
\* took, once and in order.
C13_PeerBroadcast ==
    \A c \in Conns :
        /\ mode[c] = "peer" => PeerGot(c, c) = <<>>
        /\ \A d \in Conns \ {c} :
              AttachedBefore(d, c) /\ pc[c] = "p_recv"
                 => PeerGot(d, c) = PeerTook(c)

(* ------------------------- the peers that leave ----------------------- *)

\* the peers attached to session object o: handle_peer is between its
\* append to session.peers and its finally block
AttachedPeers(o) ==
    {c \in Conns : /\ mode[c] = "peer" /\ session[c] = o
                   /\ pc[c] \in {"p_notify", "p_recv", "p_bcast"}}
\* the endpoints session.peers lists
Listed(o) == {sess[o].peers[i].websocket : i \in 1..Len(sess[o].peers)}
\* every connection that was a peer of o is over
AllDetached(o) ==
    \A c \in Conns : session[c] = o => pc[c] \in {"finally", "done"}

\* C14: session.peers lists the peers that are attached, a peer leaving it
\* when its handler ends and the others staying in it; when the last one
\* has left the session is marked inactive with its end_time set, and once
\* all peers of a session have detached the session is not in the registry.
C14_PeerLeaves ==
    \A o \in Objects :
        sess[o].hasPeers =>
            /\ Listed(o) = AttachedPeers(o)
            /\ AllDetached(o) =>
                  /\ sessions[sess[o].session_id] # o
                  /\ ~sess[o].is_active
                  /\ sess[o].end_time # None

(* -------------------------- the idle sessions ------------------------- *)

\* A sender and a receiver of session 1 and peers of session 2 arrive in
\* this order and keep silent while the clock runs and the sweeper makes
\* its passes; the peers' clients may go away, and a peer that arrives after the
\* others have left finds session 2 gone and creates it again. A tick of
\* the clock is longer than it takes a handler to attach.
Idlers == 1..NumIdlers
IdleMode(c) == IF c = 1 THEN "sender" ELSE IF c = 2 THEN "receiver" ELSE "peer"
IdleSession(c) == IF c <= 2 THEN 1 ELSE 2

IdleConnect(c) ==
    \/ AttachSender(c, IdleSession(c), IdleMode(c), MixedUser(c), FALSE, FALSE)
    \/ AttachReceiver(c, IdleSession(c), IdleMode(c), MixedUser(c), FALSE, FALSE)
    \/ AttachPeer(c, IdleSession(c), IdleMode(c), MixedUser(c), FALSE, FALSE)

\* the clock runs when the first of each role have arrived and no handler
\* is busy attaching
IdleTick ==
    /\ pc[3] # "idle"
    /\ \A c \in Idlers :
          pc[c] \notin {"s_waiting", "s_sleep", "r_connected", "p_notify"}
    /\ Tick

IdleHandler(c) ==
    \/ SenderReady(c, FALSE)
    \/ ReceiverNotify(c)
    \/ PeerNotifyNext(c)
    \/ PeerNotifyDone(c)
    \/ \E exc \in {"WebSocketDisconnect", "RuntimeError"} :
          \/ SenderDisconnect(c, exc, FALSE)
          \/ ReceiverDisconnect(c, exc)
          \/ PeerDisconnect(c, exc)
    \/ SenderClosed(c)
    \/ PeerLeaveDone(c)
    \/ Finally(c)

IdleDrop(c) == IdleMode(c) = "peer" /\ ClientDrop(c)

SweepNextStep ==
    \/ \E c \in Idlers : IdleConnect(c)
    \/ \E c \in Idlers : IdleHandler(c)
    \/ \E c \in Idlers : IdleDrop(c)
    \/ IdleTick
    \/ SweepScan
    \/ SweepCloseReceiver
    \/ SweepNext

SpecSweep == Init /\ [][SweepNextStep]_vars

\* the sessions the snapshot of the current pass found stale
\* (session_manager.py:64-68)
FoundStale ==
    IF sweeper.pc = "sleep"
    THEN {sessions[sid] : sid \in {s \in SessionIds : IsStale(s)}}
    ELSE sweeper.found
Queued(L) == {L[i] : i \in 1..Len(L)}

\* C15: a pass of the sweeper takes out of the registry every session its
\* snapshot finds idle for longer than SESSION_TIMEOUT, at once or later in
\* the pass, and no other session: a session that was not idle that long
\* stays; taking a session_id whose session a handler has removed changes
\* nothing. When the pass is over the sessions it found stale are absent.
C15_Step ==
    sweeper' # sweeper =>
        \A sid \in SessionIds :
            /\ sessions'[sid] # sessions[sid] => sessions[sid] \in FoundStale
            /\ sweeper.pc = "sleep" /\ IsStale(sid)
                  => sessions'[sid] = 0 \/ sid \in Queued(sweeper'.stale)
            /\ sessions[sid] = 0 => sessions'[sid] = 0
C15_Absent ==
    sweeper.pc = "sleep" =>
        \A o \in sweeper.found : sessions[sess[o].session_id] # o
C15_SweeperPass == [][C15_Step]_vars /\ []C15_Absent

\* C16: when a pass of the sweeper is over, every endpoint that is attached
\* to a session the pass took out of the registry, as sender, receiver or
\* peer, has been closed by the server, so that its handler's next receive
\* or send fails.
C16_EvictionCloses ==
    sweeper.pc = "sleep" =>
        \A o \in sweeper.popped : \A c \in Conns :
            session[c] = o /\ Attached(c) => closed[c]

(* ------------------------ the malformed frames ------------------------ *)

\* A sender and a receiver of session 1 and a peer of session 2 arrive in
\* this order and stay; their clients send chat messages and text frames
\* that are no JSON, MaxWritten in all.
Writers == 1..NumWriters
WrittenFrames(c) == {Frame("chat", c, <<1>>), Frame("badjson", c, <<>>)}

WriterConnect(c) ==
    \/ AttachSender(c, IdleSession(c), IdleMode(c), MixedUser(c), FALSE, FALSE)
    \/ AttachReceiver(c, IdleSession(c), IdleMode(c), MixedUser(c), FALSE, FALSE)
    \/ AttachPeer(c, IdleSession(c), IdleMode(c), MixedUser(c), FALSE, FALSE)

WriterSend(c) == \E f \in WrittenFrames(c) : ClientSend(c, f, MaxWritten)

WriterHandler(c) ==
    \/ SenderReady(c, FALSE)
    \/ ReceiverNotify(c)
    \/ PeerNotifyDone(c)
    \/ SenderChat(c, <<1>>, FALSE)
    \/ ReceiverChat(c, <<1>>, FALSE)
    \/ PeerChat(c, <<1>>, FALSE)
    \/ SenderBadJson(c, FALSE)
    \/ ReceiverBadJson(c)
    \/ PeerBadJson(c)
    \/ SenderClosed(c)
    \/ Finally(c)

WriterNext ==
    \/ \E c \in Writers : WriterConnect(c)
    \/ \E c \in Writers : WriterSend(c)
    \/ \E c \in Writers : WriterHandler(c)

SpecWriters == Init /\ [][WriterNext]_vars

\* the handler of connection c takes a text frame that is no JSON
TakesBadJson(c) ==
    /\ Len(rx'[c]) = Len(rx[c]) + 1
    /\ rx'[c][Len(rx'[c])].k = "badjson"

\* C17: the step in which a handler takes a text frame that is no JSON
\* changes nothing but the frames taken: the handler stays in its read
\* loop, its endpoint is neither closed nor sent anything, and the sessions
\* and the registry are as before.
C17_Step ==
    \A c \in Conns :
        TakesBadJson(c) =>
            /\ pc'[c] = pc[c]
            /\ closed' = closed /\ outbox' = outbox
            /\ sess' = sess /\ sessions' = sessions
C17_BadJsonDropped == [][C17_Step]_vars

(* ----------------------- the receiver that leaves --------------------- *)

\* the read loop of receiver r ends in this step (websocket.py:288-318)
ReceiverEnds(r) ==
    mode[r] = "receiver" /\ pc[r] = "r_recv" /\ pc'[r] # "r_recv"

\* C18: the step in which the read loop of a receiver ends, whatever ends
\* it, empties the receiver slot of its session and changes no other field
\* of the session, and the registry stays as it is.
C18_Step ==
    \A r \in Conns :
        ReceiverEnds(r) =>
            /\ sess' = [sess EXCEPT ![session[r]].receiver = 0]
            /\ sessions' = sessions
C18_ReceiverLeaves == [][C18_Step]_vars

(* -------------------------- the conversation -------------------------- *)

\* Peers of session 1, of users 1, 2, 1, ..., arrive one after the other
\* and stay; when all are in their read loops their clients send chat
\* messages, short and long ones, MaxTalk in all.
Talkers == 1..NumTalkers

TalkConnect(c) == AttachPeer(c, 1, "peer", MixedUser(c), FALSE, FALSE)

TalkSend(c) ==
    /\ \A d \in Talkers : pc[d] \in {"p_recv", "p_bcast"}
    /\ \E f \in ChatFrames(c) : ClientSend(c, f, MaxTalk)

TalkPeer(c) ==
    \/ PeerNotifyNext(c)
    \/ PeerNotifyDone(c)
    \/ \E text \in Texts : PeerChat(c, text, FALSE)
    \/ PeerBroadcastNext(c)
    \/ PeerBroadcastDone(c, FALSE, FALSE)

TalkNext ==
    \/ \E c \in Talkers : TalkConnect(c)
    \/ \E c \in Talkers : TalkSend(c)
    \/ \E c \in Talkers : TalkPeer(c)

SpecTalk == Init /\ [][TalkNext]_vars

\* the chat messages client d has been sent, as message_data entries
ChatsGot(d) ==
    LET fs == SelectSeq(outbox[d], IsChat)
    IN  [i \in 1..Len(fs) |-> fs[i].d[1]]

\* C19: the chat messages a peer has been sent are, in this order, among
\* the entries of session.messages: every recipient sees the messages in
\* the order in which they were inserted, whoever sent them.
C19_ChatOrder ==
    \A d \in Conns :
        mode[d] = "peer" =>
            IsSubseq(ChatsGot(d), sess[session[d]].messages)

(* --------------------------- the unknown role ------------------------- *)

Roles == {"sender", "receiver", "peer"}
\* connection c has passed the throttle and the capacity gate with a role
\* that is none of the three
Misdirected(c) == mode[c] \notin Roles \cup {"none"} /\ session[c] # 0
\* connection c is in no slot and in no peers list
Unattached(c) ==
    \A o \in Objects :
        /\ sess[o].sender # c /\ sess[o].receiver # c
        /\ \A i \in 1..Len(sess[o].peers) : sess[o].peers[i].websocket # c

\* C20: a connection that passes the throttle and the capacity gate with a
\* role that is not sender, receiver or peer takes its throttle increment
\* and, when its client is there, is sent the error frame "Invalid mode:
\* <role>" and nothing else; the one step it takes after that closes it and
\* gives the increment back. It is never in a slot or a peers list of a
\* session.
C20_Step ==
    \A c \in Conns :
        /\ ( /\ Arrives(c) /\ mode'[c] \notin Roles
             /\ ~TooManyConnections(user_id'[c])
             /\ ~AtCapacity(session_id'[c]) )
              => /\ pc'[c] = "finally"
                 /\ connection_counts' = Acquire(user_id'[c])
                 /\ alive'[c] =>
                       outbox'[c] = <<Error("Invalid mode: " \o mode'[c])>>
        /\ Misdirected(c) /\ pc'[c] # pc[c]
              => /\ pc[c] = "finally" /\ pc'[c] = "done"
                 /\ closed'[c]
                 /\ outbox'[c] = outbox[c]
                 /\ connection_counts' = Release(user_id[c])
C20_Never ==
    \A c \in Conns :
        Misdirected(c) =>
            /\ Unattached(c)
            /\ pc[c] \in {"finally", "done"}
            /\ pc[c] = "done" => closed[c]
C20_InvalidMode == [][C20_Step]_vars /\ []C20_Never

\* a connection of user 2 with an unknown role has been sent the error
\* frame and closed, and user 2 holds no connection
C20_Witness ==
    \E c \in Late :
        /\ Misdirected(c) /\ pc[c] = "done" /\ closed[c]
        /\ outbox[c] = <<Error("Invalid mode: " \o mode[c])>>
        /\ user_id[c] = 2 /\ connection_counts[2] = 0

(* --------------------------- the byte counter ------------------------- *)

\* A sender and a receiver of session 1 and a peer of session 2 arrive
\* in this order, all present when they attach. The sender's client sends
\* binary frames, pause and resume and the peer's client binary frames,
\* MaxCounted in all; the clients of the sender and of the peer may go
\* away, the clock runs while no frame is in flight and the sweeper makes
\* its passes. No speed update falls due.
CountedConns == 1..NumCounted
CountedFrames(c) ==
    IF mode[c] = "sender"
    THEN {Frame("bytes", c, <<1>>)} \cup TextFrames(c, {"pause", "resume"})
    ELSE IF mode[c] = "peer" THEN {Frame("bytes", c, <<1>>)} ELSE {}

CountedSend(c) == \E f \in CountedFrames(c) : ClientSend(c, f, MaxCounted)

CountedHandler(c) ==
    \/ SenderReady(c, FALSE)
    \/ SenderPause(c, FALSE)
    \/ SenderResume(c, FALSE)
    \/ SenderBinary(c, <<1>>, FALSE, FALSE)
    \/ ReceiverNotify(c)
    \/ PeerNotifyDone(c)
    \/ PeerBinary(c, <<1>>, FALSE, FALSE)
    \/ \E exc \in {"WebSocketDisconnect", "RuntimeError"} :
          \/ SenderDisconnect(c, exc, FALSE)
          \/ ReceiverDisconnect(c, exc)
          \/ PeerDisconnect(c, exc)
    \/ SenderClosed(c)
    \/ Finally(c)

CountedDrop(c) == mode[c] # "receiver" /\ ClientDrop(c)

CountedTick == (\A c \in CountedConns : inbox[c] = <<>>) /\ IdleTick

CountedNext ==
    \/ \E c \in CountedConns : IdleConnect(c)
    \/ \E c \in CountedConns : CountedSend(c)
    \/ \E c \in CountedConns : CountedHandler(c)
    \/ \E c \in CountedConns : CountedDrop(c)
    \/ CountedTick
    \/ SweepScan
    \/ SweepCloseReceiver
    \/ SweepNext

SpecCounted == Init /\ [][CountedNext]_vars

\* C21: no step lowers the bytes_transferred of a session: whatever a
\* handler or the sweeper does, a binary or control frame taken, pause and
\* resume, an endpoint attaching or detaching, a teardown or an eviction,
\* every session object is still there afterwards with a count that is at
\* least what it was.
C21_Step ==
    /\ Len(sess') >= Len(sess)
    /\ \A o \in Objects :
          sess'[o].bytes_transferred >= sess[o].bytes_transferred
C21_Monotonic == [][C21_Step]_vars

\* a session that has counted a frame and was paused then, and a peer
\* session that has counted one, were evicted by the sweeper with their
\* counts intact
C21_Witness ==
    \E o \in Objects, p \in Objects :
        /\ {o, p} \subseteq sweeper.popped
        /\ sess[o].bytes_transferred = 1 /\ sess[o].paused
        /\ sess[p].hasPeers /\ sess[p].bytes_transferred = 1

(* ------------------------- the early frames --------------------------- *)

\* Senders and receivers of session 1 arrive one after the other and stay.
\* The client of a sender sends binary frames, MaxEarly in all, only while
\* its handler waits in the rendezvous and the session has no receiver; the
\* clock runs, and a sender that finds a receiver goes on to its streaming
\* loop.
Early == 1..NumEarly

EarlySend(c) ==
    /\ mode[c] = "sender"
    /\ pc[c] \in {"s_waiting", "s_sleep"}
    /\ sess[session[c]].receiver = 0
    /\ \E f \in BinaryFrames(c) : ClientSend(c, f, MaxEarly)

EarlyNext ==
    \/ \E c \in Early : RendezvousConnect(c)
    \/ \E c \in Early : EarlySend(c)
    \/ \E c \in Early : SenderSleep(c)
    \/ \E c \in Early : SenderTimeout(c, FALSE)
    \/ \E c \in Early : SenderTimedOut(c)
    \/ \E c \in Early : SenderReady(c, FALSE)
    \/ \E c \in Early, chunk \in Chunks : SenderBinary(c, chunk, FALSE, FALSE)
    \/ \E c \in Early : ReceiverNotify(c)
    \/ Tick

SpecEarly == Init /\ [][EarlyNext]_vars

\* C22: the binary frames a sender's client sends while the sender waits
\* for a receiver are dropped: where no other binary frame is sent, no
\* receiver is ever sent a binary frame and the bytes_transferred of every
\* session stays 0.
C22_EarlyDropped ==
    /\ \A o \in Objects : sess[o].bytes_transferred = 0
    /\ \A r \in Conns :
          mode[r] = "receiver" => SelectSeq(outbox[r], IsBinary) = <<>>

(* ------------------------ the forwarded payload ----------------------- *)

\* C23: the step in which a sender handler takes a binary frame adds the
\* length of the frame to bytes_transferred when it sends the frame on to
\* the receiver, and adds nothing when the session has no receiver or is
\* paused, the frame then going to nobody.
C23_Step ==
    \A c \in Conns :
        TakesBinary(c) /\ mode[c] = "sender" =>
            LET o == session[c]
                r == sess[o].receiver
                f == rx'[c][Len(rx'[c])]
                added == sess'[o].bytes_transferred - sess[o].bytes_transferred
            IN  /\ (r = 0 \/ sess[o].paused)
                      => added = 0 /\ outbox' = outbox
                /\ (r # 0 /\ CanDeliver(r) /\ ~sess[o].paused)
                      => /\ added = Len(f.d)
                         /\ outbox'[r] = Append(outbox[r], f)
C23_ForwardedOnly == [][C23_Step]_vars

(* -------------------------- the busy session -------------------------- *)

\* A sender and then a receiver of session 1, whose clients stay. Once both
\* handlers are in their read loops one of the clients sends a frame in
\* every tick of the clock, of any type its handler knows, and the handler
\* takes it before the clock goes on; the sweeper makes its passes.
Busy == 1..2
BusyFrames(c) ==
    IF mode[c] = "sender"
    THEN {Frame("bytes", c, <<1>>), Frame("chat", c, <<1>>)}
         \cup TextFrames(c, {"typing", "pause", "resume", "pong"})
    ELSE {Frame("chat", c, <<1>>)} \cup TextFrames(c, {"typing", "pong"})

BusyConnect(c) ==
    \/ AttachSender(c, 1, IdleMode(c), MixedUser(c), FALSE, FALSE)
    \/ AttachReceiver(c, 1, IdleMode(c), MixedUser(c), FALSE, FALSE)

\* one frame in every tick
BusySend(c) ==
    /\ pc[1] = "s_recv" /\ pc[2] = "r_recv"
    /\ \E f \in BusyFrames(c) : ClientSend(c, f, now + 1)

BusyTick ==
    /\ nframes = now + 1
    /\ \A c \in Busy : inbox[c] = <<>>
    /\ Tick

BusyHandler(c) ==
    \/ SenderReady(c, FALSE)
    \/ ReceiverNotify(c)
    \/ SenderChat(c, <<1>>, FALSE)
    \/ SenderTyping(c, FALSE)
    \/ SenderPause(c, FALSE)
    \/ SenderResume(c, FALSE)
    \/ SenderPong(c, "pong")
    \/ SenderBinary(c, <<1>>, FALSE, FALSE)
    \/ ReceiverChat(c, <<1>>, FALSE)
    \/ ReceiverTyping(c, FALSE)
    \/ ReceiverPong(c, Frame("pong", c, <<>>))
    \/ \E exc \in {"WebSocketDisconnect", "RuntimeError"} :
          \/ SenderDisconnect(c, exc, FALSE)
          \/ ReceiverDisconnect(c, exc)
    \/ SenderClosed(c)
    \/ Finally(c)

BusyNext ==
    \/ \E c \in Busy : BusyConnect(c)
    \/ \E c \in Busy : BusySend(c)
    \/ \E c \in Busy : BusyHandler(c)
    \/ BusyTick
    \/ SweepScan
    \/ SweepCloseReceiver
    \/ SweepNext

SpecBusy == Init /\ [][BusyNext]_vars

\* the handler of connection c takes a frame in this step
TakesFrame(c) == Len(rx'[c]) = Len(rx[c]) + 1

\* C24: the step in which a role handler takes a frame, binary, chat,
\* typing, pause, resume or pong, sets the last_activity of its session to
\* the time of the step; so a session whose endpoints send such a frame in
\* every tick, SESSION_TIMEOUT being longer than a tick, is never taken out
\* of the registry by the sweeper.
C24_Step ==
    \A c \in Conns :
        TakesFrame(c) => sess'[session[c]].last_activity = now
C24_NeverEvicted == sweeper.popped = {} /\ sweeper.pc = "sleep"
C24_Refreshed == [][C24_Step]_vars /\ []C24_NeverEvicted

(* ---------------------- the recipient that fails ---------------------- *)

\* connection c has an entry in the peers list of session object o
InPeers(S, o, c) == \E i \in 1..Len(S[o].peers) : S[o].peers[i].websocket = c

\* C25: a send of a broadcast that fails for one recipient ends neither
\* the loop nor the handler: a peer handler leaves its notify and broadcast
\* loops only for its read loop and its read loop only when its own
\* connection has ended, and when a broadcast is over every listed peer of
\* another user that attached before and can be reached has been sent the
\* frame.
\* The entry of a peer that cannot be reached and whose handler is still
\* running leaves session.peers only in the teardown of that handler.
C25_Step ==
    \A c \in Conns :
        mode[c] = "peer" =>
            /\ pc[c] \in {"p_notify", "p_bcast"} => pc'[c] \in {pc[c], "p_recv"}
            /\ pc[c] = "p_recv" /\ pc'[c] \notin {"p_recv", "p_bcast"}
                  => Disconnected(c)
            /\ ( /\ ~CanDeliver(c)
                 /\ pc[c] \in {"p_notify", "p_recv", "p_bcast"}
                 /\ InPeers(sess, session[c], c)
                 /\ ~InPeers(sess', session[c], c) )
                  => pc[c] = "p_recv" /\ pc'[c] # "p_recv"
C25_Reached ==
    \A c \in Conns : \A d \in Conns \ {c} :
        ( /\ AttachedBefore(d, c) /\ pc[c] = "p_recv"
          /\ user_id[d] # user_id[c] /\ InPeers(sess, session[d], d) )
            => PeerGot(d, c) = PeerTook(c)
C25_BroadcastGoesOn == [][C25_Step]_vars /\ []C25_Reached

(* --------------------------- the start time --------------------------- *)

\* C26: a session that is active has its start_time set, in whatever order
\* its endpoints attach and whichever of their attach-time sends fail.
C26_StartTimeSet ==
    \A o \in Objects : sess[o].is_active => sess[o].start_time # None

(* ------------------------- the rendezvous met ------------------------- *)

\* A sender and a receiver of session 1 arrive in either order, each
\* present when it attaches; the receiver's client sends chat messages,
\* MaxGreetings in all, the clock runs, and either client may go away.
ReadyConnect(c) ==
    \E m \in {"sender", "receiver"} :
        \/ AttachSender(c, 1, m, MixedUser(c), FALSE, FALSE)
        \/ AttachReceiver(c, 1, m, MixedUser(c), FALSE, FALSE)

ReadySend(c) ==
    /\ mode[c] = "receiver"
    /\ ClientSend(c, Frame("chat", c, <<1>>), MaxGreetings)

ReadyNext ==
    \/ \E c \in Pair : ReadyConnect(c)
    \/ \E c \in Pair : ReadySend(c)
    \/ \E c \in Pair : SenderSleep(c)
    \/ \E c \in Pair : SenderTimeout(c, FALSE)
    \/ \E c \in Pair : SenderTimedOut(c)
    \/ \E c \in Pair : SenderReady(c, FALSE)
    \/ \E c \in Pair : ReceiverNotify(c)
    \/ \E c \in Pair : ReceiverChat(c, <<1>>, FALSE)
    \/ \E c \in Pair, exc \in {"WebSocketDisconnect", "RuntimeError"} :
          ReceiverDisconnect(c, exc)
    \/ \E c \in Pair : ClientDrop(c)
    \/ \E c \in Pair : Finally(c)
    \/ Tick

SpecReady == Init /\ [][ReadyNext]_vars

\* asyncio.sleep(1) of websocket.py:73 returns and the event loop resumes
\* the handler: a sender that has a receiver does not wait for ever
SpecReadyFair ==
    SpecReady /\ \A c \in Pair : WF_vars(SenderReady(c, FALSE))

\* sender c waits in the rendezvous
Waiting(c) == mode[c] = "sender" /\ pc[c] \in {"s_waiting", "s_sleep"}
\* the "ready" frames client c has been sent
IsReady(f) == f.k = "ready"
Readies(c) == SelectSeq(outbox[c], IsReady)

\* C27: the step a waiting sender takes once its session has a receiver,
\* the first after the "waiting" frame when the receiver was there before
\* it, marks the session active, sets start_time to the time of the step
\* and sends the sender "ready" with the chat history of the session as it
\* is then; no sender is sent "ready" twice, and a sender that waits while
\* a receiver is attached and stays connected does get it.
C27_Step ==
    \A c \in Pair :
        ( /\ Waiting(c) /\ pc'[c] # pc[c]
          /\ sess[session[c]].receiver # 0 /\ CanDeliver(c) )
        => /\ pc'[c] = "s_recv"
           /\ sess'[session[c]].is_active
           /\ sess'[session[c]].start_time = now
           /\ outbox'[c] = Append(outbox[c],
                 Frame("ready", 0, sess[session[c]].messages))
C27_Once ==
    \A c \in Pair :
        /\ Len(Readies(c)) <= 1
        /\ pc[c] = "s_recv" /\ alive[c] => Len(Readies(c)) = 1
C27_Met ==
    \A c \in Pair, r \in Pair :
        (Waiting(c) /\ sess[session[c]].receiver = r)
            ~> (Readies(c) # <<>> \/ ~alive[c] \/ ~alive[r])
C27_Ready == [][C27_Step]_vars /\ []C27_Once /\ C27_Met

\* a sender that attached after the receiver had sent a chat message, and
\* after a tick of the clock, has been sent "ready" with that message
C27_Witness ==
    \E c \in Pair :
        /\ pc[c] = "s_recv" /\ alive[c]
        /\ sess[session[c]].start_time = 1
        /\ Len(outbox[c]) = 2
        /\ outbox[c][2].k = "ready" /\ Len(outbox[c][2].d) = 1

(* -------------------------- the late teardown ------------------------- *)

\* C28: a step of a role handler takes out of the registry no session but
\* the one the handler is attached to: a session that a handler's teardown
\* removes is the session object of the handler that takes the step, so a
\* session created under the session_id of an evicted one outlives the
\* teardown of the handlers of the old one.
C28_Step ==
    sweeper' = sweeper =>
        \A sid \in SessionIds :
            sessions[sid] # 0 /\ sessions'[sid] = 0
                => \E c \in Conns :
                      pc'[c] # pc[c] /\ session[c] = sessions[sid]
C28_OwnSessionOnly == [][C28_Step]_vars

(* ------------------------- the entries of peers ----------------------- *)

\* the entries that session.peers of object o holds for connection c
Entries(o, c) ==
    LET OfC(p) == p.websocket = c
    IN  Len(SelectSeq(sess[o].peers, OfC))
\* handle_peer of connection c is running on object o and has not reached
\* its finally block
RunningPeer(o, c) ==
    /\ mode[c] = "peer" /\ session[c] = o
    /\ pc[c] \in {"p_notify", "p_recv", "p_bcast"}

\* C29: session.peers holds one entry for every peer connection whose
\* handler is running on the session and none for any other connection:
\* the entry of a peer is there from its attach to its own teardown, also
\* when a peer of the same user_id leaves, and is not left behind by a
\* handler that ends at its attach-time send.
C29_OneEntryEach ==
    \A o \in Objects : \A c \in Conns :
        Entries(o, c) = IF RunningPeer(o, c) THEN 1 ELSE 0

(* ---------------------- the rejected connections ---------------------- *)

\* ws_transfer turns connection c away in the step in which it arrives:
\* its user holds five connections, the registry is full and its
\* session_id is new, or its role is none of the three
TurnedAway(c) ==
    /\ Arrives(c)
    /\ \/ TooManyConnections(user_id'[c])
       \/ AtCapacity(session_id'[c])
       \/ mode'[c] \notin Roles
\* connection c has been turned away
Rejected(c) ==
    /\ pc[c] \notin {"idle"}
    /\ \/ session[c] = 0
       \/ mode[c] \notin Roles

\* C30: a connection that is turned away at the throttle, at the capacity
\* gate or for its role leaves the registry as it is, in the step in which
\* it arrives and in every later step of its own: no session is created
\* and none is removed.
C30_Step ==
    \A c \in Conns :
        (TurnedAway(c) \/ (Rejected(c) /\ pc'[c] # pc[c]))
            => sessions' = sessions /\ Len(sess') = Len(sess)
C30_RegistryUnchanged == [][C30_Step]_vars


(* ------------------------ the forsaken sessions ----------------------- *)

\* Connections of session 1 arrive one after the other in any role, one
\* that is none of the three included, their clients there or gone by the
\* first send; a sender waits for a receiver, every client may go away, and
\* the sweeper makes its passes while the clock runs without end.
Leavers == 1..NumLeavers

LeaverConnect(c) ==
    \E m \in Modes, gone \in BOOLEAN :
        \/ AttachInvalid(c, 1, m, MixedUser(c), gone, FALSE)
        \/ AttachSender(c, 1, m, MixedUser(c), gone, FALSE)
        \/ AttachReceiver(c, 1, m, MixedUser(c), gone, FALSE)
        \/ AttachPeer(c, 1, m, MixedUser(c), gone, FALSE)

LeaverHandler(c) ==
    \/ SenderSleep(c)
    \/ \E unnoticed \in BOOLEAN : SenderTimeout(c, unnoticed)
    \/ SenderTimedOut(c)
    \/ SenderReady(c, FALSE)
    \/ ReceiverNotify(c)
    \/ PeerNotifyNext(c)
    \/ PeerNotifyDone(c)
    \/ \E exc \in {"WebSocketDisconnect", "RuntimeError"} :
          \/ SenderDisconnect(c, exc, FALSE)
          \/ ReceiverDisconnect(c, exc)
          \/ PeerDisconnect(c, exc)
    \/ SenderClosed(c)
    \/ PeerLeaveDone(c)
    \/ Finally(c)

\* an instant t on a clock that is read one tick later and still shows now
Earlier(t) == IF t > 0 THEN t - 1 ELSE t

\* Time passes, also when the clock shows MaxNow: then the reading stays
\* and the instants on record move one tick into the past, as far as 0.
\* The tests of session_manager.py:67 and websocket.py:72 compare now with
\* a recorded instant and come out the same for every age of MaxNow ticks
\* or more, MaxNow being more than SESSION_TIMEOUT and RendezvousTimeout.
Elapse ==
    \/ Tick
    \/ /\ now = MaxNow
       /\ sess' = [o \in 1..Len(sess) |->
                      [sess[o] EXCEPT !.last_activity = Earlier(@),
                                      !.start_time = Earlier(@),
                                      !.end_time = Earlier(@)]]
       /\ start' = [c \in Conns |-> Earlier(start[c])]
       /\ UNCHANGED <<now, connection_counts, sessions, pc, mode, user_id,
                      session_id, session, alive, closed, outbox, inbox, rx,
                      processed, iter, raised, nframes, sweeper>>

\* a step of cleanup_stale_sessions (session_manager.py:61-82)
Sweep ==
    \/ SweepScan
    \/ SweepCloseReceiver
    \/ SweepNext

LeaverNext ==
    \/ \E c \in Leavers : LeaverConnect(c)
    \/ \E c \in Leavers : LeaverHandler(c)
    \/ \E c \in Leavers : ClientDrop(c)
    \/ Sweep
    \/ Elapse

SpecLeavers == Init /\ [][LeaverNext]_vars

\* The event loop resumes every coroutine that can go on: a handler whose
\* await is over, and the sweeper, whose asyncio.sleep(60) returns as time
\* passes.
SpecLeaversFair ==
    /\ SpecLeavers
    /\ \A c \in Leavers : WF_vars(LeaverHandler(c))
    /\ WF_vars(Sweep)
    /\ WF_vars(Elapse)

\* session object o is in the registry
Registered(o) == o <= Len(sess) /\ sessions[sess[o].session_id] = o
\* the handler of a connection attached to object o has not ended
Live(o) == \E c \in Conns : session[c] = o /\ pc[c] \notin {"idle", "done"}

\* C31: a session that is in the registry when the handlers of all the
\* connections attached to it have ended does not stay there for ever with
\* no connection: it leaves the registry, at the latest by a pass of the
\* sweeper, or a new connection attaches to it.
C31_Removed ==
    \A o \in Leavers :
        (Registered(o) /\ ~Live(o)) ~> (~Registered(o) \/ Live(o))

\* the sweeper has taken out of the registry a session that still names a
\* sender whose handler ended without its teardown, and no connection is
\* attached to it
C31_Witness ==
    \E o \in sweeper.popped :
        /\ ~Registered(o) /\ ~Live(o)
        /\ sess[o].sender # 0 /\ pc[sess[o].sender] = "done"
        /\ sess[o].end_time = None
        /\ sessions[1] = 0


(* -------------------------- the patient sender ------------------------ *)

\* A receiver of session 1 arrives and keeps silent, a connection whose
\* role is none of the three names session 2, and a sender arrives for
\* either session at any time and waits for a receiver; the sweeper makes
\* its passes. A tick of the clock is the 300 seconds of the rendezvous: it
\* does not pass before every waiting sender has polled at the present
\* reading of the clock, the sleep of a poll being one second.
Waiters == 1..NumWaiters

WaiterConnect(c) ==
    \/ c = 1 /\ AttachReceiver(c, 1, "receiver", 1, FALSE, FALSE)
    \/ c = 2 /\ AttachInvalid(c, 2, "bogus", 2, FALSE, FALSE)
    \/ c = 3 /\ \E sid \in {1, 2} :
                   AttachSender(c, sid, "sender", 2, FALSE, FALSE)

Polled(c) ==
    Waiting(c) => /\ pc[c] = "s_sleep"
                  /\ sess[session[c]].last_activity = now

WaiterTick ==
    /\ \A c \in Waiters : pc[c] # "r_connected" /\ Polled(c)
    /\ Tick

WaiterHandler(c) ==
    \/ SenderSleep(c)
    \/ SenderTimeout(c, FALSE)
    \/ SenderTimedOut(c)
    \/ SenderReady(c, FALSE)
    \/ ReceiverNotify(c)
    \/ \E exc \in {"WebSocketDisconnect", "RuntimeError"} :
          \/ SenderDisconnect(c, exc, FALSE)
          \/ ReceiverDisconnect(c, exc)
    \/ SenderClosed(c)
    \/ Finally(c)

WaiterNext ==
    \/ \E c \in Waiters : WaiterConnect(c)
    \/ \E c \in Waiters : WaiterHandler(c)
    \/ WaiterTick
    \/ SweepScan
    \/ SweepCloseReceiver
    \/ SweepNext

SpecWaiters == Init /\ [][WaiterNext]_vars

\* C32: no step of the sweeper takes out of the registry the session of a
\* sender that waits in the rendezvous loop and has not waited for the
\* 300 seconds of its timeout.
C32_Step ==
    sweeper' # sweeper =>
        \A c \in Waiters :
            ( /\ Waiting(c) /\ now - SenderStart(c) < RendezvousTimeout
              /\ Registered(session[c]) )
            => sessions'[session_id[c]] = session[c]
C32_NotEvicted == [][C32_Step]_vars


(* ------------------------- the second endpoint ------------------------ *)

\* Senders and receivers of session 1 arrive one after the other, each
\* present when it attaches, so that the session may get a second sender
\* or a second receiver; the senders' clients send binary frames of one
\* byte, MaxRivalFrames in all, and any client may go away. The transfer
\* is over within a second, so that no speed update is due.
Rivals == 1..NumRivals

RivalConnect(c) ==
    \E m \in {"sender", "receiver"} :
        \/ AttachSender(c, 1, m, MixedUser(c), FALSE, FALSE)
        \/ AttachReceiver(c, 1, m, MixedUser(c), FALSE, FALSE)

RivalSend(c) ==
    /\ mode[c] = "sender"
    /\ ClientSend(c, Frame("bytes", c, <<1>>), MaxRivalFrames)

RivalHandler(c) ==
    \/ SenderSleep(c)
    \/ SenderReady(c, FALSE)
    \/ \E unnoticed \in BOOLEAN : SenderBinary(c, <<1>>, FALSE, unnoticed)
    \/ ReceiverNotify(c)
    \/ \E exc \in {"WebSocketDisconnect", "RuntimeError"} :
          \/ SenderDisconnect(c, exc, FALSE)
          \/ ReceiverDisconnect(c, exc)
    \/ SenderClosed(c)
    \/ Finally(c)

RivalNext ==
    \/ \E c \in Rivals : RivalConnect(c)
    \/ \E c \in Rivals : RivalSend(c)
    \/ \E c \in Rivals : RivalHandler(c)
    \/ \E c \in Rivals : ClientDrop(c)

SpecRivals == Init /\ [][RivalNext]_vars

\* connection c is the endpoint in the sender slot of its session, which is
\* in the registry, and handle_sender of c is in its streaming loop with
\* the client there
Streaming(c) ==
    /\ mode[c] = "sender" /\ pc[c] = "s_recv" /\ CanDeliver(c)
    /\ sess[session[c]].sender = c
    /\ Registered(session[c])

\* C33: while the endpoint in the sender slot of a session is connected
\* and streaming, no step of the handler of another connection takes the
\* session out of the registry or closes the socket of its receiver, which
\* only the receiver's own handler may close; the teardown of a sender that
\* attached to the session earlier is such a step.
C33_Step ==
    \A c \in Rivals, d \in Rivals :
        (Streaming(c) /\ d # c /\ pc'[c] = pc[c] /\ pc'[d] # pc[d])
        => /\ sessions'[session_id[c]] = session[c]
           /\ LET r == sess[session[c]].receiver
              IN  r # 0 /\ r # d => closed'[r] = closed[r]
C33_SenderKeepsSession == [][C33_Step]_vars


\* receiver q is the last receiver that attached to session object o, and
\* its handler is running with the client there
LastReceiver(q, o) ==
    /\ mode[q] = "receiver" /\ session[q] = o
    /\ pc[q] \in {"r_connected", "r_recv"} /\ CanDeliver(q)
    /\ \A p \in Rivals : p > q => ~(mode[p] = "receiver" /\ session[p] = o)

\* C34: the step in which the read loop of a receiver ends leaves the
\* receiver slot of its session as it is when the slot holds the endpoint
\* of another receiver, and a binary frame that a sender handler takes
\* while the session is not paused goes to the receiver that attached
\* last, also after a receiver that attached before it has left.
C34_Step ==
    /\ \A r \in Rivals :
          ReceiverEnds(r) /\ sess[session[r]].receiver # r
              => sess'[session[r]].receiver = sess[session[r]].receiver
    /\ \A c \in Rivals, q \in Rivals :
          ( /\ TakesBinary(c) /\ mode[c] = "sender"
            /\ ~sess[session[c]].paused /\ LastReceiver(q, session[c]) )
          => outbox'[q] = Append(outbox[q], rx'[c][Len(rx'[c])])
C34_SecondReceiverStays == [][C34_Step]_vars

=============================================================================
